---- MODULE Spec2Model ----
(***************************************************************************)
(* miniscope: the acquisition thread (SerialReader.run), the bounded       *)
(* hand-off queue (MainWindow.serial_queue), the display tick's            *)
(* drain-to-latest (MainWindow.update_plot), the UART toggle               *)
(* (MainWindow.toggle_uart), the trigger detector (find_triggers), the     *)
(* smoothing filter (moving_average) and the display pipeline of           *)
(* update_plot (ring buffers, windows, voltages, auto-scaling), the        *)
(* measurements (calculate_measurements) and the audio callback            *)
(* (audio_callback).                                                       *)
(*                                                                         *)
(* Spec      the acquisition threads and the GUI thread, interleaved at    *)
(*           the granularity of one shared access (a queue operation, a    *)
(*           read of the stop flag, a port operation) per step.            *)
(* FairSpec  one acquisition thread and the GUI thread, with weak fairness *)
(*           on the thread's steps (reads and sleeps return, a runnable    *)
(*           thread is scheduled).                                         *)
(* DecSpec   one acquisition thread reading chunks of any size, with the   *)
(*           history of its current connection recorded.                   *)
(* TrigSpec  find_triggers applied to inputs drawn from bounded sets.      *)
(* AvgSpec   moving_average applied to inputs drawn from bounded sets.     *)
(* StageSpec the trigger stage of update_plot (filter, detector, index     *)
(*           adjustment) applied to raw buffers of bounded length.         *)
(* FrameSpec the frame decoder applied to frames over a few bytes.         *)
(* RingSpec  the ingest loop of update_plot applied to a ring buffer.      *)
(* WinSpec   the display pipeline of update_plot fed by the built-in       *)
(*           generator, with the trigger settings and the time scale       *)
(*           changing between ticks.                                       *)
(* ScaleSpec the same pipeline with the clock advancing, for the           *)
(*           auto-scaler.                                                  *)
(* TickSpec  one acquisition thread and the display tick, with the frames  *)
(*           taken from the queue going through the pipeline.              *)
(* StreamSpec one acquisition thread on a device that never stops sending, *)
(*           and the tick's drain loop, both scheduled fairly.             *)
(* NormSpec  TickSpec on the UART source alone, with the trigger mode      *)
(*           changing between ticks.                                       *)
(* SettleSpec the auto-scaler with ticks that keep coming while time passes.*)
(* IndepSpec the pipeline with the two trigger levels and the filter switch*)
(*           changing between ticks.                                       *)
(* MeasSpec  calculate_measurements applied to doubles of one binade.      *)
(* FreqSpec  the frequency estimate of calculate_measurements applied to 64*)
(*           samples of a sinusoid, in fixed point.                        *)
(* AudioSpec the audio thread's callback, in three steps, between display  *)
(*           ticks and volume changes.                                     *)
(* FitSpec   the pipeline with the time scale switching between a short   *)
(*           and a long window, so that a window at a late trigger runs    *)
(*           past the end of the buffer.                                   *)
(* FreezeSpec one acquisition thread and the display tick, with the        *)
(*           display frozen and released between ticks.                    *)
(*                                                                         *)
(* Sizes are scaled down (BufferSize, MinShow, MaxShow, LongShow,          *)
(* FakeStep);                                                              *)
(* voltages are exact multiples of a fixed unit and the clock counts       *)
(* whole seconds.                                                          *)
(***************************************************************************)
EXTENDS Integers, Sequences, FiniteSets, TLC

(***************************************************************************)
(* Bounds of the model.                                                    *)
(***************************************************************************)
\* SerialReader objects toggle_uart may create in one run.
MaxReaders == 2
\* Frames' worth of bytes the device emits in one run.
MaxFrames == 10
\* Largest chunk one ser.read returns (the code asks for up to 256 bytes).
MaxChunk == 5
\* config.SAMPLES_PER_CHANNEL, scaled down (frame_bytes is a constructor
\* parameter of SerialReader).
SamplesPerChannel == 1
\* Longest data sequence handed to find_triggers.
MaxLen == 6
\* Largest max_found and min_width handed to find_triggers.
MaxFound == 2
MaxMinWidth == 3
\* Largest window_size handed to moving_average.
MaxWindow == 4
\* Longest raw buffer handed to the trigger stage of update_plot on its own.
MaxRaw == 9
\* config.BUFFER_SIZE (8000), scaled down: the capacity of a ring buffer.
BufferSize == 9
\* The least samples_to_show (100) and the largest one the time slider asks for
\* (1000), scaled down.
MinShow == 2
MaxShow == 3
LongShow == 5
\* The samples FakeSource.generate adds per call (60), scaled down.
FakeStep == 3
\* The fewest samples calculate_measurements accepts (10), scaled down.
MinMeasure == 1
\* Longest sample sequence handed to calculate_measurements on its own, and the
\* largest offset of a sample in its binade (in units in the last place).
MaxSamples == 11
MaxOffset == 3
\* The fewest samples audio_callback plays (10), scaled down as the windows are.
MinAudio == 2
\* The largest frame count requested of audio_callback.
MaxAudioFrames == 4
\* The highest frequency of a sinusoid handed to the frequency estimate, in bins.
MaxBin == 48
\* The latest time (whole seconds) the clock reaches.
MaxTime == 12
\* Most 4-byte groups in a frame handed to the decoder on its own.
MaxGroups == 2
\* Longest batch ingested into a ring buffer on its own, and the most samples
\* ingested in all.
MaxBatch == 3
MaxIngested == 11

(***************************************************************************)
(* Program constants.                                                      *)
(***************************************************************************)
NUM_CHANNELS == 2
\* queue.Queue(maxsize=8)
QueueMaxSize == 8
\* self.trigger_avg_window = 5
TRIGGER_AVG_WINDOW == 5
\* find_triggers(..., max_found=1, min_width=3) in update_plot
TRIGGER_MAX_FOUND == 1
TRIGGER_MIN_WIDTH == 3
ADC_MAX == 4095
FAKE_FS == 50000
\* self.auto_scale_timeout = 5.0 (seconds)
AUTO_SCALE_TIMEOUT == 5
AUDIO_SAMPLE_RATE == 44100

\* Voltages are whole multiples of 1 / (400 * ADC_MAX) volt, in which VREF / ADC_MAX,
\* the channel factors 9.0 and 9.25, the margin of a tenth of the span and the flat
\* margin of 0.1 V are all exact.
UnitsPerVolt == 400 * ADC_MAX
\* VREF = 3.3
VREF == (33 * UnitsPerVolt) \div 10
\* VOLTAGE_MULT_CH1 = 9.0, VOLTAGE_MULT_CH2 = 9.25, in quarters
VOLTAGE_MULT_CH1 == 36
VOLTAGE_MULT_CH2 == 37

SAMPLES_PER_FRAME == SamplesPerChannel * NUM_CHANNELS
FRAME_BYTES == SAMPLES_PER_FRAME * 2

\* Bytes the device emits in one run.
MaxWireBytes == MaxFrames * FRAME_BYTES

Readers == 1..MaxReaders

\* The sizes of the chunks ser.read returns: any size (DecSpec), or nothing or the
\* bytes that complete one frame (Spec, FairSpec: with the program's FRAME_BYTES of
\* 8192 and reads of at most 256 bytes, a read completes at most one frame).
ByteChunks == 0..MaxChunk
FrameChunks == {0, FRAME_BYTES}

VARIABLES
    \* --- MainWindow (GUI thread) ---
    serial_queue,   \* self.serial_queue: the batches in the hand-off queue, oldest first
    use_uart,       \* self.use_uart
    serial_reader,  \* self.serial_reader: a reader id, or 0 for None
    is_frozen,      \* self.is_frozen
    thawed,         \* history: toggle_freeze has released the display and no tick has ended since
    gui_pc,         \* where the GUI thread is: "idle", "drain" (update_plot's loop), "join"
    latest,         \* update_plot's local `latest`: <<>> for None, <<batch>> otherwise
    n_readers,      \* SerialReader objects created so far
    \* --- SerialReader r (acquisition thread) ---
    r_pc,           \* position in run(): new, check, open, retry_sleep (line 58), read,
                    \* put, drop, reput, error_sleep (line 115), done
    r_stop,         \* self._stop
    r_ser,          \* self.ser: "None" or "open"
    r_buf,          \* self._buf: the residual bytes
    r_frame,        \* run's local frame_data: <<>> or <<batch>>
    \* --- the device ---
    wire_pos,       \* bytes emitted so far
    \* --- history ---
    last_enq,       \* the batch of the most recent put into the queue: <<>> or <<batch>>
    rx_bytes,       \* per reader: the bytes read on its current connection (DecSpec)
    rx_batches,     \* per reader: the batches decoded on its current connection (DecSpec)
    \* --- one call of find_triggers (TrigSpec) ---
    t_pc,           \* "none" (no call), "call" (arguments bound), "returned"
    t_data,         \* data
    t_threshold,    \* threshold
    t_rising,       \* rising
    t_max_found,    \* max_found
    t_min_width,    \* min_width
    t_out,          \* the list returned
    \* --- one call of another function (AvgSpec, StageSpec, MeasSpec), or of
    \* --- audio_callback on the audio thread (AudioSpec) ---
    c_pc,           \* "none" (no call), "call" (arguments bound), "returned";
                    \* audio_callback: "checked" (past line 670), "got" (past line 676)
    c_args,         \* the arguments, a record
    c_ret,          \* the value returned
    \* --- MainWindow: the display pipeline ---
    buffer_ch1,     \* self.buffer_ch1: the ring buffer, oldest first
    buffer_ch2,     \* self.buffer_ch2
    trigger_mode,   \* self.trigger_mode: "AUTO" or "NORMAL"
    use_trigger_filter, \* self.use_trigger_filter
    threshold_ch1,  \* self.threshold_ch1 (ADC counts)
    threshold_ch2,  \* self.threshold_ch2
    time_per_div,   \* self.time_per_div, as int(time_per_div * FAKE_FS * 10) samples
    voltage_mult_ch1, \* self.voltage_mult_ch1
    voltage_mult_ch2, \* self.voltage_mult_ch2
    auto_scale_enabled, \* self.auto_scale_enabled
    fft_mode,       \* self.fft_mode
    audio_volume,   \* self.audio_volume, as the volume slider's percent
    last_data_volts, \* self.last_data_volts; two empty lists stand for {}
    x_min,          \* self.x_min, in sample periods (1 / FAKE_FS seconds)
    x_max,          \* self.x_max
    y_min,          \* self.y_min
    y_max,          \* self.y_max
    last_expansion_time, \* self.last_expansion_time
    meas,           \* the measurements shown, per channel: kind "--" before the
                    \* first one, "off", "none", or "value" with v_min, v_max, v_pp
    src_fake_ch1,   \* self.src_fake.buf_ch1
    src_fake_ch2,   \* self.src_fake.buf_ch2
    \* --- the clock ---
    now             \* time.time(), whole seconds since MainWindow was built

\* The variables of the threads (Spec, FairSpec, DecSpec).
thread_vars == << serial_queue, use_uart, serial_reader, is_frozen, thawed, gui_pc, latest,
                  n_readers,
                  r_pc, r_stop, r_ser, r_buf, r_frame, wire_pos, last_enq, rx_bytes,
                  rx_batches >>

\* The variables of the calls of pure functions, which no thread step changes.
call_vars == << c_pc, c_args, c_ret >>

pure_vars == << t_pc, t_data, t_threshold, t_rising, t_max_found, t_min_width, t_out,
                call_vars >>

\* The ring buffers.
ring_vars == << buffer_ch1, buffer_ch2 >>

\* The settings the user changes.
config_vars == << trigger_mode, use_trigger_filter, threshold_ch1, threshold_ch2,
                 time_per_div, voltage_mult_ch1, voltage_mult_ch2, auto_scale_enabled,
                 fft_mode, audio_volume >>

\* The ScaleState.
scale_vars == << x_min, x_max, y_min, y_max, last_expansion_time >>

\* What a tick publishes.
publish_vars == << last_data_volts, scale_vars, meas >>

\* The variables of the display pipeline.
display_vars == << ring_vars, config_vars, publish_vars, src_fake_ch1, src_fake_ch2, now >>

vars == << thread_vars, pure_vars, display_vars >>

gui_vars == << use_uart, serial_reader, is_frozen, thawed, gui_pc, latest, n_readers >>

(***************************************************************************)
(* The wire and the frame decoder.                                         *)
(***************************************************************************)
\* The k-th byte the device emits.
WireByte(k) == k % 256

\* Bytes lo+1 .. lo+n of the wire.
WireChunk(lo, n) == [i \in 1..n |-> WireByte(lo + i)]

\* The 16-bit value without the mask.
Adc12Unmasked(lo, hi) == (hi * 256) + lo

\* raw = (hi << 8) | lo; adc12 = raw & 0x0FFF
Adc12(lo, hi) == ((hi * 256) + lo) % 4096

\* One frame (FRAME_BYTES bytes) to a batch {'ch1': [...], 'ch2': [...]}.
DecodeFrame(frame) ==
    [ ch1 |-> [j \in 1..(Len(frame) \div 4) |-> Adc12(frame[4 * (j - 1) + 1], frame[4 * (j - 1) + 2])],
      ch2 |-> [j \in 1..(Len(frame) \div 4) |-> Adc12(frame[4 * (j - 1) + 3], frame[4 * (j - 1) + 4])] ]

(***************************************************************************)
(* queue.Queue                                                             *)
(***************************************************************************)
\* A queue created without maxsize is never full.
QFullUnbounded(q) == FALSE

\* put_nowait raises queue.Full
QFull(q) == Len(q) >= QueueMaxSize

\* get_nowait raises queue.Empty
QEmpty(q) == Len(q) = 0

(***************************************************************************)
(* Initial state: MainWindow.__init__                                      *)
(***************************************************************************)
ThreadsInit ==
    /\ serial_queue = << >>
    /\ use_uart = FALSE
    /\ serial_reader = 0
    /\ is_frozen = FALSE
    /\ thawed = FALSE
    /\ gui_pc = "idle"
    /\ latest = << >>
    /\ n_readers = 0
    /\ r_pc = [r \in Readers |-> "new"]
    /\ r_stop = [r \in Readers |-> FALSE]
    /\ r_ser = [r \in Readers |-> "None"]
    /\ r_buf = [r \in Readers |-> << >>]
    /\ r_frame = [r \in Readers |-> << >>]
    /\ wire_pos = 0
    /\ last_enq = << >>
    /\ rx_bytes = [r \in Readers |-> << >>]
    /\ rx_batches = [r \in Readers |-> << >>]

\* MainWindow.__init__: the display pipeline. FakeSource.__init__: its buffers.
DisplayInit ==
    /\ buffer_ch1 = [i \in 1..BufferSize |-> 0]
    /\ buffer_ch2 = [i \in 1..BufferSize |-> 0]
    /\ trigger_mode = "AUTO"
    /\ use_trigger_filter = TRUE
    /\ threshold_ch1 = 2048
    /\ threshold_ch2 = 2048
    /\ time_per_div = (MinShow + MaxShow) \div 2
    /\ voltage_mult_ch1 = 1
    /\ voltage_mult_ch2 = 1
    /\ auto_scale_enabled = TRUE
    /\ fft_mode = FALSE
    /\ audio_volume = 50
    /\ last_data_volts = [ch1 |-> << >>, ch2 |-> << >>]
    /\ x_min = 0
    /\ x_max = 100 * FAKE_FS
    /\ y_min = 0
    /\ y_max = VREF
    /\ last_expansion_time = 0
    /\ meas = [ch1 |-> [kind |-> "--", v_min |-> 0, v_max |-> 0, v_pp |-> 0],
               ch2 |-> [kind |-> "--", v_min |-> 0, v_max |-> 0, v_pp |-> 0]]
    /\ src_fake_ch1 = [i \in 1..BufferSize |-> 0]
    /\ src_fake_ch2 = [i \in 1..BufferSize |-> 0]
    /\ now = 0

\* No call of find_triggers is under way.
NoCall ==
    /\ t_pc = "none"
    /\ t_data = << >>
    /\ t_threshold = 0
    /\ t_rising = TRUE
    /\ t_max_found = 0
    /\ t_min_width = 0
    /\ t_out = << >>
    /\ c_pc = "none"
    /\ c_args = << >>
    /\ c_ret = << >>

Init == ThreadsInit /\ NoCall /\ DisplayInit

\* The decoder on its own: a frame of 1 to MaxGroups groups, each byte with all bits
\* clear but the lowest, only bit 4 set, or all bits set.
DecodeBytes == {1, 16, 255}
DecodeFrames == UNION {[1..(4 * g) -> DecodeBytes] : g \in 1..MaxGroups}

FrameInit ==
    /\ ThreadsInit
    /\ DisplayInit
    /\ t_pc = "none"
    /\ t_data = << >>
    /\ t_threshold = 0
    /\ t_rising = TRUE
    /\ t_max_found = 0
    /\ t_min_width = 0
    /\ t_out = << >>
    /\ c_pc = "call"
    /\ c_args \in DecodeFrames
    /\ c_ret = << >>

DecodeFrameCall ==
    /\ c_pc = "call"
    /\ c_ret' = DecodeFrame(c_args)
    /\ c_pc' = "returned"
    /\ UNCHANGED << thread_vars, t_pc, t_data, t_threshold, t_rising, t_max_found,
                    t_min_width, t_out, c_args, display_vars >>

FrameNext == DecodeFrameCall

FrameSpec == FrameInit /\ [][FrameNext]_vars

(***************************************************************************)
(* SerialReader.run                                                        *)
(***************************************************************************)
\* run leaving its loop without the cleanup self.close_ser().
RCheckNoCleanup(r) ==
    /\ r_pc[r] = "check"
    /\ r_pc' = [r_pc EXCEPT ![r] = IF r_stop[r] THEN "done"
                                   ELSE IF r_ser[r] = "None" THEN "open" ELSE "read"]
    /\ UNCHANGED << serial_queue, gui_vars, r_stop, r_ser, r_buf, r_frame, wire_pos,
                    last_enq, rx_bytes, rx_batches >>
    /\ UNCHANGED << pure_vars, display_vars >>

\* while not self._stop.is_set(): ... ; after the loop: self.close_ser()
RCheck(r) ==
    /\ r_pc[r] = "check"
    /\ IF r_stop[r]
       THEN /\ r_ser' = [r_ser EXCEPT ![r] = "None"]
            /\ r_pc' = [r_pc EXCEPT ![r] = "done"]
       ELSE /\ r_pc' = [r_pc EXCEPT ![r] = IF r_ser[r] = "None" THEN "open" ELSE "read"]
            /\ UNCHANGED r_ser
    /\ UNCHANGED << serial_queue, gui_vars, r_stop, r_buf, r_frame, wire_pos, last_enq,
                    rx_bytes, rx_batches >>
    /\ UNCHANGED << pure_vars, display_vars >>

\* open_ser returns True
ROpenOk(r, hist) ==
    /\ r_pc[r] = "open"
    /\ r_ser' = [r_ser EXCEPT ![r] = "open"]
    /\ r_pc' = [r_pc EXCEPT ![r] = "read"]
    /\ rx_bytes' = IF hist THEN [rx_bytes EXCEPT ![r] = << >>] ELSE rx_bytes
    /\ rx_batches' = IF hist THEN [rx_batches EXCEPT ![r] = << >>] ELSE rx_batches
    /\ UNCHANGED << serial_queue, gui_vars, r_stop, r_buf, r_frame, wire_pos, last_enq >>
    /\ UNCHANGED << pure_vars, display_vars >>

\* A failed open that leaves the run loop (return instead of sleep and continue).
ROpenFailReturns(r) ==
    /\ r_pc[r] = "open"
    /\ r_ser' = [r_ser EXCEPT ![r] = "None"]
    /\ r_pc' = [r_pc EXCEPT ![r] = "done"]
    /\ UNCHANGED << serial_queue, gui_vars, r_stop, r_buf, r_frame, wire_pos, last_enq,
                    rx_bytes, rx_batches >>
    /\ UNCHANGED << pure_vars, display_vars >>

\* open_ser returns False: time.sleep(self._reconnect_delay); continue
ROpenFail(r) ==
    /\ r_pc[r] = "open"
    /\ r_ser' = [r_ser EXCEPT ![r] = "None"]
    /\ r_pc' = [r_pc EXCEPT ![r] = "retry_sleep"]
    /\ UNCHANGED << serial_queue, gui_vars, r_stop, r_buf, r_frame, wire_pos, last_enq,
                    rx_bytes, rx_batches >>
    /\ UNCHANGED << pure_vars, display_vars >>

\* time.sleep returns (line 58, then continue; or line 115, the end of the handler)
RSleep(r) ==
    /\ r_pc[r] \in {"retry_sleep", "error_sleep"}
    /\ r_pc' = [r_pc EXCEPT ![r] = "check"]
    /\ UNCHANGED << serial_queue, gui_vars, r_stop, r_ser, r_buf, r_frame, wire_pos,
                    last_enq, rx_bytes, rx_batches >>
    /\ UNCHANGED << pure_vars, display_vars >>

\* while len(self._buf) >= self.frame_bytes: frame_bytes = bytes(self._buf[:...]);
\* del self._buf[:self.frame_bytes]; decode. With buf in self._buf, the loop takes
\* its next frame off the front and decodes it (the thread is then at put_nowait), or
\* ends (the thread is then back at the test of the outer loop).
FrameLoop(r, buf, hist) ==
    IF Len(buf) >= FRAME_BYTES
    THEN /\ r_frame' = [r_frame EXCEPT ![r] = << DecodeFrame(SubSeq(buf, 1, FRAME_BYTES)) >>]
         /\ r_buf' = [r_buf EXCEPT ![r] = SubSeq(buf, FRAME_BYTES + 1, Len(buf))]
         /\ rx_batches' = IF hist
                          THEN [rx_batches EXCEPT ![r] =
                                   Append(@, DecodeFrame(SubSeq(buf, 1, FRAME_BYTES)))]
                          ELSE rx_batches
         /\ r_pc' = [r_pc EXCEPT ![r] = "put"]
    ELSE /\ r_frame' = [r_frame EXCEPT ![r] = << >>]
         /\ r_buf' = [r_buf EXCEPT ![r] = buf]
         /\ r_pc' = [r_pc EXCEPT ![r] = "check"]
         /\ UNCHANGED rx_batches

\* A read whose timeout discards the residual bytes (self._buf.clear() before the
\* continue).
RReadTimeoutClearsBuf(r, sizes, hist) ==
    /\ r_pc[r] = "read"
    /\ \E n \in sizes :
          /\ wire_pos + n <= MaxWireBytes
          /\ wire_pos' = wire_pos + n
          /\ rx_bytes' = IF hist THEN [rx_bytes EXCEPT ![r] = @ \o WireChunk(wire_pos, n)]
                                 ELSE rx_bytes
          /\ IF n = 0
             THEN /\ r_pc' = [r_pc EXCEPT ![r] = "check"]
                  /\ r_buf' = [r_buf EXCEPT ![r] = << >>]
                  /\ UNCHANGED << r_frame, rx_batches >>
             ELSE FrameLoop(r, r_buf[r] \o WireChunk(wire_pos, n), hist)
    /\ UNCHANGED << serial_queue, gui_vars, r_stop, r_ser, last_enq >>
    /\ UNCHANGED << pure_vars, display_vars >>

\* chunk = self.ser.read(256); if not chunk: continue; self._buf.extend(chunk); then
\* the frame loop
RRead(r, sizes, hist) ==
    /\ r_pc[r] = "read"
    /\ \E n \in sizes :
          /\ wire_pos + n <= MaxWireBytes
          /\ wire_pos' = wire_pos + n
          /\ rx_bytes' = IF hist THEN [rx_bytes EXCEPT ![r] = @ \o WireChunk(wire_pos, n)]
                                 ELSE rx_bytes
          /\ IF n = 0
             THEN /\ r_pc' = [r_pc EXCEPT ![r] = "check"]
                  /\ UNCHANGED << r_buf, r_frame, rx_batches >>
             ELSE FrameLoop(r, r_buf[r] \o WireChunk(wire_pos, n), hist)
    /\ UNCHANGED << serial_queue, gui_vars, r_stop, r_ser, last_enq >>
    /\ UNCHANGED << pure_vars, display_vars >>

\* The same read from a device that never stops sending: the wire repeats, with the
\* period of its bytes, and no history is kept.
WirePeriod == 256

RReadEndless(r, sizes) ==
    /\ r_pc[r] = "read"
    /\ \E n \in sizes :
          /\ wire_pos' = (wire_pos + n) % WirePeriod
          /\ IF n = 0
             THEN /\ r_pc' = [r_pc EXCEPT ![r] = "check"]
                  /\ UNCHANGED << r_buf, r_frame, rx_batches >>
             ELSE FrameLoop(r, r_buf[r] \o WireChunk(wire_pos, n), FALSE)
    /\ UNCHANGED << serial_queue, gui_vars, r_stop, r_ser, last_enq, rx_bytes >>
    /\ UNCHANGED << pure_vars, display_vars >>

\* An error handler that sleeps without self.close_ser(): the handle is kept.
RReadErrorKeepsPort(r) ==
    /\ r_pc[r] = "read"
    /\ r_pc' = [r_pc EXCEPT ![r] = "error_sleep"]
    /\ UNCHANGED << serial_queue, gui_vars, r_stop, r_ser, r_buf, r_frame, wire_pos,
                    last_enq, rx_bytes, rx_batches >>
    /\ UNCHANGED << pure_vars, display_vars >>

\* self.ser.read raises: except Exception: self.close_ser(); time.sleep(...)
RReadError(r) ==
    /\ r_pc[r] = "read"
    /\ r_ser' = [r_ser EXCEPT ![r] = "None"]
    /\ r_pc' = [r_pc EXCEPT ![r] = "error_sleep"]
    /\ UNCHANGED << serial_queue, gui_vars, r_stop, r_buf, r_frame, wire_pos, last_enq,
                    rx_bytes, rx_batches >>
    /\ UNCHANGED << pure_vars, display_vars >>

\* self.q.put_nowait(frame_data): the batch is queued and the frame loop goes on, or
\* queue.Full is raised
\* A thread that also writes the frame it queues into the ring buffer of channel 1.
RPutIntoRingBuffer(r, hist) ==
    /\ r_pc[r] = "put"
    /\ IF QFull(serial_queue)
       THEN /\ r_pc' = [r_pc EXCEPT ![r] = "drop"]
            /\ UNCHANGED << serial_queue, last_enq, r_frame, r_buf, rx_batches, buffer_ch1 >>
       ELSE /\ serial_queue' = Append(serial_queue, r_frame[r][1])
            /\ last_enq' = << r_frame[r][1] >>
            /\ buffer_ch1' = buffer_ch1 \o r_frame[r][1].ch1
            /\ FrameLoop(r, r_buf[r], hist)
    /\ UNCHANGED << gui_vars, r_stop, r_ser, wire_pos, rx_bytes >>
    /\ UNCHANGED << pure_vars, buffer_ch2, config_vars, publish_vars, src_fake_ch1,
                    src_fake_ch2, now >>

\* self.q.put_nowait(frame_data)
RPut(r, hist) ==
    /\ r_pc[r] = "put"
    /\ IF QFull(serial_queue)
       THEN /\ r_pc' = [r_pc EXCEPT ![r] = "drop"]
            /\ UNCHANGED << serial_queue, last_enq, r_frame, r_buf, rx_batches >>
       ELSE /\ serial_queue' = Append(serial_queue, r_frame[r][1])
            /\ last_enq' = << r_frame[r][1] >>
            /\ FrameLoop(r, r_buf[r], hist)
    /\ UNCHANGED << gui_vars, r_stop, r_ser, wire_pos, rx_bytes >>
    /\ UNCHANGED << pure_vars, display_vars >>

\* except queue.Full: _ = self.q.get_nowait()  (queue.Empty is swallowed)
RDrop(r) ==
    /\ r_pc[r] = "drop"
    /\ serial_queue' = IF QEmpty(serial_queue) THEN serial_queue ELSE Tail(serial_queue)
    /\ r_pc' = [r_pc EXCEPT ![r] = "reput"]
    /\ UNCHANGED << gui_vars, r_stop, r_ser, r_buf, r_frame, wire_pos, last_enq, rx_bytes,
                    rx_batches >>
    /\ UNCHANGED << pure_vars, display_vars >>

\* the second self.q.put_nowait(frame_data)  (queue.Full is swallowed); the frame
\* loop goes on
RReput(r, hist) ==
    /\ r_pc[r] = "reput"
    /\ IF QFull(serial_queue)
       THEN UNCHANGED << serial_queue, last_enq >>
       ELSE /\ serial_queue' = Append(serial_queue, r_frame[r][1])
            /\ last_enq' = << r_frame[r][1] >>
    /\ FrameLoop(r, r_buf[r], hist)
    /\ UNCHANGED << gui_vars, r_stop, r_ser, wire_pos, rx_bytes >>
    /\ UNCHANGED << pure_vars, display_vars >>

\* One step of reader r's thread. sizes: the chunk sizes a read may return; hist:
\* whether the history of the connection (rx_bytes, rx_batches) is recorded.
ReaderStep(r, sizes, hist) ==
    \/ RCheck(r)
    \/ ROpenOk(r, hist)
    \/ ROpenFail(r)
    \/ RSleep(r)
    \/ RRead(r, sizes, hist)
    \/ RReadError(r)
    \/ RPut(r, hist)
    \/ RDrop(r)
    \/ RReput(r, hist)

\* One step of reader r's thread on a device that never stops sending.
EndlessReaderStep(r, sizes) ==
    \/ RCheck(r)
    \/ ROpenOk(r, FALSE)
    \/ ROpenFail(r)
    \/ RSleep(r)
    \/ RReadEndless(r, sizes)
    \/ RReadError(r)
    \/ RPut(r, FALSE)
    \/ RDrop(r)
    \/ RReput(r, FALSE)

reader_vars == << r_stop, r_ser, r_buf, r_frame, wire_pos, last_enq, rx_bytes, rx_batches >>

(***************************************************************************)
(* utils.find_triggers                                                     *)
(***************************************************************************)
\* data[i], with Python's indices (from 0) into a TLA+ sequence (from 1).
At(data, i) == data[i + 1]

\* The inner loop with range(1, min_width): the last sample is not checked.
HeldShortByOne(data, threshold, rising, min_width, i) ==
    \A k \in 1..(min_width - 1) :
        /\ i + k < Len(data)
        /\ IF rising THEN At(data, i + k) >= threshold ELSE At(data, i + k) <= threshold

\* for k in range(1, min_width + 1): if i + k >= N or data[i + k] < threshold
\* (> threshold when falling): valid = False
Held(data, threshold, rising, min_width, i) ==
    \A k \in 1..min_width :
        /\ i + k < Len(data)
        /\ IF rising THEN At(data, i + k) >= threshold ELSE At(data, i + k) <= threshold

\* if data[i] < threshold <= data[i + 1]  (data[i] > threshold >= data[i + 1])
Crossing(data, threshold, rising, i) ==
    IF rising
    THEN At(data, i) < threshold /\ threshold <= At(data, i + 1)
    ELSE At(data, i) > threshold /\ threshold >= At(data, i + 1)

\* The loop for i in range(N - min_width), from index i on with `out` collected so
\* far: append i if it is a held crossing, then break if len(out) >= max_found.
RECURSIVE ScanFrom(_, _, _, _, _, _, _)
ScanFrom(data, threshold, rising, max_found, min_width, i, out) ==
    IF i >= Len(data) - min_width
    THEN out
    ELSE LET found == /\ Crossing(data, threshold, rising, i)
                      /\ Held(data, threshold, rising, min_width, i)
             out2 == IF found THEN Append(out, i) ELSE out
         IN  IF Len(out2) >= max_found
             THEN out2
             ELSE ScanFrom(data, threshold, rising, max_found, min_width, i + 1, out2)

find_triggers(data, threshold, rising, max_found, min_width) ==
    ScanFrom(data, threshold, rising, max_found, min_width, 0, << >>)

\* The arguments of the calls checked: samples just below, at and above the
\* thresholds, sequences of 0 to MaxLen samples.
TrigLevels == {2047, 2048, 2049}
TrigThresholds == {2048, 2049}
TrigData == UNION {[1..n -> TrigLevels] : n \in 0..MaxLen}

TrigInit ==
    /\ ThreadsInit
    /\ DisplayInit
    /\ t_pc = "call"
    /\ t_data \in TrigData
    /\ t_threshold \in TrigThresholds
    /\ t_rising \in BOOLEAN
    /\ t_max_found \in 0..MaxFound
    /\ t_min_width \in 1..MaxMinWidth
    /\ t_out = << >>
    /\ c_pc = "none"
    /\ c_args = << >>
    /\ c_ret = << >>

FindTriggersCall ==
    /\ t_pc = "call"
    /\ t_out' = find_triggers(t_data, t_threshold, t_rising, t_max_found, t_min_width)
    /\ t_pc' = "returned"
    /\ UNCHANGED << thread_vars, t_data, t_threshold, t_rising, t_max_found, t_min_width,
                    call_vars, display_vars >>

TrigNext == FindTriggersCall

TrigSpec == TrigInit /\ [][TrigNext]_vars

(***************************************************************************)
(* utils.moving_average                                                    *)
(***************************************************************************)
\* np.cumsum(data, dtype=float): ret[k] = data[0] + ... + data[k]
RECURSIVE cumsum(_)
cumsum(data) ==
    IF data = << >>
    THEN << >>
    ELSE LET init == cumsum(SubSeq(data, 1, Len(data) - 1))
         IN  Append(init, (IF init = << >> THEN 0 ELSE init[Len(init)]) + data[Len(data)])

\* moving_average without ret[window_size:] = ret[window_size:] - ret[:-window_size]:
\* the prefix sums themselves are divided.
moving_average_of_prefix_sums(data, window_size) ==
    IF Len(data) < window_size
    THEN data
    ELSE [j \in 1..(Len(data) - window_size + 1) |->
             [num |-> cumsum(data)[j + window_size - 1], den |-> window_size]]

\* if len(data) < window_size: return data
\* ret = np.cumsum(data, dtype=float)
\* ret[window_size:] = ret[window_size:] - ret[:-window_size]
\* return list(ret[window_size - 1:] / window_size)
\* A quotient x / window_size is the record [num |-> x, den |-> window_size]. The
\* sums are whole numbers far below 2^53, so the float sums are exact.
moving_average(data, window_size) ==
    IF Len(data) < window_size
    THEN data
    ELSE LET ret == cumsum(data)
             ret2 == [k \in 1..Len(data) |->
                         IF k > window_size THEN ret[k] - ret[k - window_size] ELSE ret[k]]
         IN  [j \in 1..(Len(data) - window_size + 1) |->
                 [num |-> ret2[j + window_size - 1], den |-> window_size]]

\* The arguments of the calls checked: 0 to MaxLen samples, windows of 1 to MaxWindow.
AvgLevels == {0, 1, 4095}
AvgData == UNION {[1..n -> AvgLevels] : n \in 0..MaxLen}

AvgInit ==
    /\ ThreadsInit
    /\ DisplayInit
    /\ t_pc = "none"
    /\ t_data = << >>
    /\ t_threshold = 0
    /\ t_rising = TRUE
    /\ t_max_found = 0
    /\ t_min_width = 0
    /\ t_out = << >>
    /\ c_pc = "call"
    /\ c_args \in [data : AvgData, window_size : 1..MaxWindow]
    /\ c_ret = << >>

MovingAverageCall ==
    /\ c_pc = "call"
    /\ c_ret' = moving_average(c_args.data, c_args.window_size)
    /\ c_pc' = "returned"
    /\ UNCHANGED << thread_vars, t_pc, t_data, t_threshold, t_rising, t_max_found,
                    t_min_width, t_out, c_args, display_vars >>

AvgNext == MovingAverageCall

AvgSpec == AvgInit /\ [][AvgNext]_vars

(***************************************************************************)
(* update_plot: the trigger stage of one channel                           *)
(***************************************************************************)
\* if self.use_trigger_filter: trig_src = moving_average(raw, self.trigger_avg_window)
\* else: trig_src = raw
\* triggers = find_triggers(trig_src, threshold, self.trigger_rising, max_found=1, min_width=3)
\* if self.use_trigger_filter: triggers = [t + (self.trigger_avg_window - 1) for t in triggers]
\* A filtered sample x / w is below the threshold exactly when x is below w times
\* the threshold, so find_triggers is given the numerators and the scaled threshold;
\* a buffer shorter than the window comes back from moving_average unchanged.
channel_triggers(raw, threshold, rising, use_filter, avg_window) ==
    LET trig_src == IF use_filter THEN moving_average(raw, avg_window)
                                          ELSE raw
        filtered == use_filter /\ Len(raw) >= avg_window
        triggers == IF filtered
                    THEN find_triggers([j \in 1..Len(trig_src) |-> trig_src[j].num],
                                       threshold * avg_window, rising,
                                       TRIGGER_MAX_FOUND, TRIGGER_MIN_WIDTH)
                    ELSE find_triggers(trig_src, threshold, rising,
                                       TRIGGER_MAX_FOUND, TRIGGER_MIN_WIDTH)
    IN  IF use_filter
        THEN [n \in 1..Len(triggers) |-> triggers[n] + (avg_window - 1)]
        ELSE triggers

\* The arguments of the stage checked on its own: raw buffers of 0 to MaxRaw samples
\* at the ends of the ADC range.
StageLevels == {0, 4095}
StageData == UNION {[1..n -> StageLevels] : n \in 0..MaxRaw}

StageInit ==
    /\ ThreadsInit
    /\ DisplayInit
    /\ t_pc = "none"
    /\ t_data = << >>
    /\ t_threshold = 0
    /\ t_rising = TRUE
    /\ t_max_found = 0
    /\ t_min_width = 0
    /\ t_out = << >>
    /\ c_pc = "call"
    /\ c_args \in [raw : StageData, threshold : {2048}, rising : BOOLEAN,
                   use_trigger_filter : BOOLEAN]
    /\ c_ret = << >>

ChannelTriggersCall ==
    /\ c_pc = "call"
    /\ c_ret' = channel_triggers(c_args.raw, c_args.threshold, c_args.rising,
                                 c_args.use_trigger_filter, TRIGGER_AVG_WINDOW)
    /\ c_pc' = "returned"
    /\ UNCHANGED << thread_vars, t_pc, t_data, t_threshold, t_rising, t_max_found,
                    t_min_width, t_out, c_args, display_vars >>

StageNext == ChannelTriggersCall

StageSpec == StageInit /\ [][StageNext]_vars

(***************************************************************************)
(* update_plot: the display pipeline                                       *)
(***************************************************************************)
Min(a, b) == IF a < b THEN a ELSE b
Max(a, b) == IF a > b THEN a ELSE b

RECURSIVE SeqMin(_)
SeqMin(q) == IF Len(q) = 1 THEN q[1] ELSE Min(q[1], SeqMin(Tail(q)))

RECURSIVE SeqMax(_)
SeqMax(q) == IF Len(q) = 1 THEN q[1] ELSE Max(q[1], SeqMax(Tail(q)))

\* A deque that drops the item just added when it is full.
deque_append_keeps_oldest(buf, val) ==
    IF Len(buf) >= BufferSize THEN buf ELSE Append(buf, val)

\* deque(maxlen=BUFFER_SIZE).append(val): a full deque drops its oldest item.
deque_append(buf, val) ==
    IF Len(buf) >= BufferSize THEN Append(Tail(buf), val) ELSE Append(buf, val)

\* An ingest that appends the batch twice.
ingest_twice(buf, batch) ==
    SubSeq(buf \o batch \o batch, Len(buf \o batch \o batch) - BufferSize + 1,
           Len(buf \o batch \o batch))

\* An ingest that leaves the buffer as it is.
ingest_discards_batch(buf, batch) == buf

\* for val in raw_dict['ch1']: self.buffer_ch1.append(val)
RECURSIVE ingest(_, _)
ingest(buf, batch) ==
    IF batch = << >> THEN buf ELSE ingest(deque_append(buf, Head(batch)), Tail(batch))

\* The ingest loop on its own: a ring buffer as MainWindow.__init__ creates it takes
\* batch after batch; c_ret is the buffer, c_args every sample ingested so far.
RingLevels == {1, 2}
RingBatches == UNION {[1..n -> RingLevels] : n \in 0..MaxBatch}

RingInit ==
    /\ ThreadsInit
    /\ DisplayInit
    /\ t_pc = "none"
    /\ t_data = << >>
    /\ t_threshold = 0
    /\ t_rising = TRUE
    /\ t_max_found = 0
    /\ t_min_width = 0
    /\ t_out = << >>
    /\ c_pc = "call"
    /\ c_args = << >>
    /\ c_ret = [i \in 1..BufferSize |-> 0]

IngestCall ==
    /\ c_pc = "call"
    /\ \E batch \in RingBatches :
          /\ Len(c_args) + Len(batch) <= MaxIngested
          /\ c_ret' = ingest(c_ret, batch)
          /\ c_args' = c_args \o batch
    /\ UNCHANGED << thread_vars, t_pc, t_data, t_threshold, t_rising, t_max_found,
                    t_min_width, t_out, c_pc, display_vars >>

RingNext == IngestCall

RingSpec == RingInit /\ [][RingNext]_vars

\* A window length without the lower clamp: min(samples_to_show, len(raw_ch1)).
samples_to_show_unclamped(requested, raw_len) == Min(requested, raw_len)

\* samples_to_show = int(self.time_per_div * FAKE_FS * 10)
\* samples_to_show = max(100, min(samples_to_show, len(raw_ch1)))
samples_to_show(requested, raw_len) == Max(MinShow, Min(requested, raw_len))

\* raw[-n:] for n >= 1: the last n items, all of them when there are fewer.
last_samples(raw, n) == SubSeq(raw, Max(1, Len(raw) - n + 1), Len(raw))

\* self.trigger_rising = True; nothing changes it.
trigger_rising == TRUE

\* A window that is always the latest samples, whatever was triggered.
data_window_latest(raw, triggers, n_show, mode) ==
    IF Len(triggers) >= 1 \/ mode = "AUTO" THEN last_samples(raw, n_show) ELSE << >>

\* A window that falls back to the latest samples in every mode.
data_window_any_mode(raw, triggers, n_show, mode) ==
    IF Len(triggers) >= 1 /\ triggers[1] + n_show <= Len(raw)
    THEN SubSeq(raw, triggers[1] + 1, triggers[1] + n_show)
    ELSE last_samples(raw, n_show)

\* A window that runs from the trigger to the end of the buffer: raw[p0:].
data_window_to_end(raw, triggers, n_show, mode) ==
    IF Len(triggers) >= 1
    THEN LET p0 == triggers[1]
         IN  IF p0 + n_show <= Len(raw)
             THEN SubSeq(raw, p0 + 1, Len(raw))
             ELSE last_samples(raw, n_show)
    ELSE IF mode = "AUTO" THEN last_samples(raw, n_show) ELSE << >>

\* Build the data window of a channel according to the trigger mode; triggers holds
\* positions counted from 0.
data_window(raw, triggers, n_show, mode) ==
    IF Len(triggers) >= 1
    THEN LET p0 == triggers[1]
         IN  IF p0 + n_show <= Len(raw)
             THEN SubSeq(raw, p0 + 1, p0 + n_show)
             ELSE last_samples(raw, n_show)
    ELSE IF mode = "AUTO" THEN last_samples(raw, n_show) ELSE << >>

\* scale = VREF / ADC_MAX; x * scale (FakeSource.to_voltage does the same);
\* (v + offset) * VOLTAGE_MULT_CHn * self.voltage_mult_chn, the offsets being 0.0
to_volts(data, channel_mult, mult) ==
    [i \in 1..Len(data) |-> (data[i] * (VREF \div ADC_MAX) * channel_mult * mult) \div 4]

\* calculate_measurements, without v_avg and the frequency; "off" is the label of a
\* channel without data.
calculate_measurements(volts) ==
    IF volts = << >>
    THEN [kind |-> "off", v_min |-> 0, v_max |-> 0, v_pp |-> 0]
    ELSE IF Len(volts) < MinMeasure
         THEN [kind |-> "none", v_min |-> 0, v_max |-> 0, v_pp |-> 0]
         ELSE [kind |-> "value", v_min |-> SeqMin(volts), v_max |-> SeqMax(volts),
               v_pp |-> SeqMax(volts) - SeqMin(volts)]

\* margin = (curr_max - curr_min) * 0.1 if (curr_max - curr_min) > 0 else 0.1
scale_margin(curr_min, curr_max) ==
    IF curr_max - curr_min > 0 THEN (curr_max - curr_min) \div 10 ELSE UnitsPerVolt \div 10

target_y_min(all_data) == SeqMin(all_data) - scale_margin(SeqMin(all_data), SeqMax(all_data))
target_y_max(all_data) == SeqMax(all_data) + scale_margin(SeqMin(all_data), SeqMax(all_data))

\* A contraction that never becomes due.
contraction_due_never(t) == FALSE

\* A contraction that does not wait.
contraction_due_at_once(t) == TRUE

\* (now - self.last_expansion_time) > self.auto_scale_timeout
contraction_due(t) == (t - last_expansion_time) > AUTO_SCALE_TIMEOUT

\* A lower bound that is never expanded.
expand_y_min_never(target) == y_min

\* if target_y_min < self.y_min: self.y_min = target_y_min
expand_y_min(target) == IF target < y_min THEN target ELSE y_min

\* if target_y_max > self.y_max: self.y_max = target_y_max
expand_y_max(target) == IF target > y_max THEN target ELSE y_max

\* Smart auto-scaling of update_plot; t is what time.time() returns.
auto_scale(volts_ch1, volts_ch2, t) ==
    LET all_data == volts_ch1 \o volts_ch2
        N == Max(Len(volts_ch1), Len(volts_ch2))
        padding_samples == N \div 50
    IN  IF all_data = << >>
        THEN UNCHANGED scale_vars
        ELSE /\ x_min' = 0 - padding_samples
             /\ x_max' = N + padding_samples
             /\ IF target_y_min(all_data) < y_min \/ target_y_max(all_data) > y_max
                THEN /\ y_min' = expand_y_min(target_y_min(all_data))
                     /\ y_max' = expand_y_max(target_y_max(all_data))
                     /\ last_expansion_time' = t
                ELSE IF contraction_due(t)
                     THEN /\ y_min' = target_y_min(all_data)
                          /\ y_max' = target_y_max(all_data)
                          /\ last_expansion_time' = t
                     ELSE UNCHANGED << y_min, y_max, last_expansion_time >>

\* update_plot from "Update larger buffers with new data" to the measurements, and the
\* FFT mode as far as it changes the state; t is what time.time() returns.
process_frame(raw_dict, t) ==
    LET raw_ch1 == ingest(buffer_ch1, raw_dict.ch1)
        raw_ch2 == ingest(buffer_ch2, raw_dict.ch2)
        n_show == samples_to_show(time_per_div, Len(raw_ch1))
        triggers_ch1 == channel_triggers(raw_ch1, threshold_ch1, trigger_rising,
                                         use_trigger_filter, TRIGGER_AVG_WINDOW)
        triggers_ch2 == channel_triggers(raw_ch2, threshold_ch2, trigger_rising,
                                         use_trigger_filter, TRIGGER_AVG_WINDOW)
        data_ch1 == data_window(raw_ch1, triggers_ch1, n_show, trigger_mode)
        data_ch2 == data_window(raw_ch2, triggers_ch2, n_show, trigger_mode)
        volts_ch1 == to_volts(data_ch1, VOLTAGE_MULT_CH1, voltage_mult_ch1)
        volts_ch2 == to_volts(data_ch2, VOLTAGE_MULT_CH2, voltage_mult_ch2)
    IN  /\ buffer_ch1' = raw_ch1
        /\ buffer_ch2' = raw_ch2
        /\ IF trigger_mode = "NORMAL" /\ (data_ch1 = << >> \/ data_ch2 = << >>)
           THEN UNCHANGED publish_vars
           ELSE /\ last_data_volts' = [ch1 |-> volts_ch1, ch2 |-> volts_ch2]
                /\ IF fft_mode
                   THEN UNCHANGED << scale_vars, meas >>
                   ELSE /\ IF auto_scale_enabled
                           THEN auto_scale(volts_ch1, volts_ch2, t)
                           ELSE UNCHANGED scale_vars
                        /\ meas' = [ch1 |-> calculate_measurements(volts_ch1),
                                    ch2 |-> calculate_measurements(volts_ch2)]

(***************************************************************************)
(* MainWindow: toggle_uart, toggle_freeze, update_plot                     *)
(***************************************************************************)
\* toggle_uart, button checked: clear the queue, create and start a reader
ToggleUartOn(max_readers) ==
    /\ gui_pc = "idle"
    /\ ~use_uart
    /\ n_readers < max_readers
    /\ use_uart' = TRUE
    /\ serial_queue' = << >>
    /\ n_readers' = n_readers + 1
    /\ serial_reader' = n_readers + 1
    /\ r_pc' = [r_pc EXCEPT ![n_readers + 1] = "check"]
    /\ UNCHANGED << is_frozen, thawed, gui_pc, latest, reader_vars >>
    /\ UNCHANGED << pure_vars, display_vars >>

\* toggle_uart, button unchecked: self.serial_reader.stop(), then join(timeout=0.5)
ToggleUartOff ==
    /\ gui_pc = "idle"
    /\ use_uart
    /\ use_uart' = FALSE
    /\ IF serial_reader # 0
       THEN /\ r_stop' = [r_stop EXCEPT ![serial_reader] = TRUE]
            /\ gui_pc' = "join"
       ELSE UNCHANGED << r_stop, gui_pc >>
    /\ UNCHANGED << serial_queue, serial_reader, is_frozen, thawed, latest, n_readers, r_pc, r_ser,
                    r_buf, r_frame, wire_pos, last_enq, rx_bytes, rx_batches >>
    /\ UNCHANGED << pure_vars, display_vars >>

\* join returns (the thread has ended, or the timeout has expired);
\* self.serial_reader = None
JoinReturn ==
    /\ gui_pc = "join"
    /\ serial_reader' = 0
    /\ gui_pc' = "idle"
    /\ UNCHANGED << serial_queue, use_uart, is_frozen, thawed, latest, n_readers, r_pc,
                    reader_vars >>
    /\ UNCHANGED << pure_vars, display_vars >>

\* toggle_freeze
ToggleFreeze ==
    /\ gui_pc = "idle"
    /\ is_frozen' = ~is_frozen
    /\ thawed' = is_frozen
    /\ UNCHANGED << serial_queue, use_uart, serial_reader, gui_pc, latest, n_readers, r_pc,
                    reader_vars >>
    /\ UNCHANGED << pure_vars, display_vars >>

\* update_plot, entry: if self.is_frozen: return. With the UART: latest = None and
\* the drain loop starts. Without it: raw_dict = self.src_fake.generate(), which
\* appends fresh samples to the generator's buffers and returns all they hold, and
\* the rest of update_plot. The clock has moved on by some dt since it was last read.
\* No action of a thread and no queue operation reads a variable of the display
\* pipeline: a specification of the threads and the queue alone passes display as
\* FALSE and leaves the pipeline's variables as they are.
UpdatePlot(fake_batches, dts, display) ==
    /\ gui_pc = "idle"
    /\ IF is_frozen
       THEN UNCHANGED << gui_pc, latest, display_vars >>
       ELSE IF use_uart
            THEN /\ gui_pc' = "drain"
                 /\ latest' = << >>
                 /\ UNCHANGED display_vars
            ELSE IF ~display
            THEN UNCHANGED << gui_pc, latest, display_vars >>
            ELSE \E fresh \in fake_batches, dt \in dts :
                    /\ now + dt <= MaxTime
                    /\ now' = now + dt
                    /\ src_fake_ch1' = ingest(src_fake_ch1, fresh.ch1)
                    /\ src_fake_ch2' = ingest(src_fake_ch2, fresh.ch2)
                    /\ process_frame([ch1 |-> ingest(src_fake_ch1, fresh.ch1),
                                      ch2 |-> ingest(src_fake_ch2, fresh.ch2)], now + dt)
                    /\ UNCHANGED << gui_pc, latest, config_vars >>
    /\ thawed' = (thawed /\ ~is_frozen /\ use_uart)
    /\ UNCHANGED << serial_queue, use_uart, serial_reader, is_frozen, n_readers, r_pc,
                    reader_vars >>
    /\ UNCHANGED pure_vars

\* latest = self.serial_queue.get_nowait()
DrainGet ==
    /\ gui_pc = "drain"
    /\ ~QEmpty(serial_queue)
    /\ latest' = << Head(serial_queue) >>
    /\ serial_queue' = Tail(serial_queue)
    /\ UNCHANGED << use_uart, serial_reader, is_frozen, thawed, gui_pc, n_readers, r_pc,
                    reader_vars >>
    /\ UNCHANGED << pure_vars, display_vars >>

\* except queue.Empty: pass; if latest is None: return; raw_dict = latest, and the
\* rest of update_plot
DrainEmpty(dts, display) ==
    /\ gui_pc = "drain"
    /\ QEmpty(serial_queue)
    /\ gui_pc' = "idle"
    /\ latest' = << >>
    /\ IF latest = << >> \/ ~display
       THEN UNCHANGED display_vars
       ELSE \E dt \in dts :
               /\ now + dt <= MaxTime
               /\ now' = now + dt
               /\ process_frame(latest[1], now + dt)
               /\ UNCHANGED << config_vars, src_fake_ch1, src_fake_ch2 >>
    /\ thawed' = FALSE
    /\ UNCHANGED << serial_queue, use_uart, serial_reader, is_frozen, n_readers, r_pc,
                    reader_vars >>
    /\ UNCHANGED pure_vars

\* update_trigger_mode: the combo box holds AUTO and NORMAL
UpdateTriggerMode ==
    /\ gui_pc = "idle"
    /\ trigger_mode' = IF trigger_mode = "AUTO" THEN "NORMAL" ELSE "AUTO"
    /\ UNCHANGED << use_trigger_filter, threshold_ch1, threshold_ch2, time_per_div,
                    voltage_mult_ch1, voltage_mult_ch2, auto_scale_enabled, fft_mode, audio_volume >>
    /\ UNCHANGED << thread_vars, pure_vars, ring_vars, publish_vars, src_fake_ch1,
                    src_fake_ch2, now >>

\* update_threshold_ch1: the CH1 level slider (0..ADC_MAX) moves to another position
UpdateThresholdCh1(levels) ==
    /\ gui_pc = "idle"
    /\ \E level \in levels : level # threshold_ch1 /\ threshold_ch1' = level
    /\ UNCHANGED << trigger_mode, use_trigger_filter, threshold_ch2, time_per_div,
                    voltage_mult_ch1, voltage_mult_ch2, auto_scale_enabled, fft_mode, audio_volume >>
    /\ UNCHANGED << thread_vars, pure_vars, ring_vars, publish_vars, src_fake_ch1,
                    src_fake_ch2, now >>

\* update_threshold_ch2
UpdateThresholdCh2(levels) ==
    /\ gui_pc = "idle"
    /\ \E level \in levels : level # threshold_ch2 /\ threshold_ch2' = level
    /\ UNCHANGED << trigger_mode, use_trigger_filter, threshold_ch1, time_per_div,
                    voltage_mult_ch1, voltage_mult_ch2, auto_scale_enabled, fft_mode, audio_volume >>
    /\ UNCHANGED << thread_vars, pure_vars, ring_vars, publish_vars, src_fake_ch1,
                    src_fake_ch2, now >>

\* toggle_trigger_filter
ToggleTriggerFilter ==
    /\ gui_pc = "idle"
    /\ use_trigger_filter' = ~use_trigger_filter
    /\ UNCHANGED << trigger_mode, threshold_ch1, threshold_ch2, time_per_div,
                    voltage_mult_ch1, voltage_mult_ch2, auto_scale_enabled, fft_mode, audio_volume >>
    /\ UNCHANGED << thread_vars, pure_vars, ring_vars, publish_vars, src_fake_ch1,
                    src_fake_ch2, now >>

\* update_time_scale: the slider moves to another position
UpdateTimeScaleTo(settings) ==
    /\ gui_pc = "idle"
    /\ \E requested \in settings \ {time_per_div} : time_per_div' = requested
    /\ UNCHANGED << trigger_mode, use_trigger_filter, threshold_ch1, threshold_ch2,
                    voltage_mult_ch1, voltage_mult_ch2, auto_scale_enabled, fft_mode, audio_volume >>
    /\ UNCHANGED << thread_vars, pure_vars, ring_vars, publish_vars, src_fake_ch1,
                    src_fake_ch2, now >>

UpdateTimeScale == UpdateTimeScaleTo(1..MaxShow)

\* update_volt_mult_ch1, update_volt_mult_ch2: a valid number was entered
UpdateVoltMult(mults) ==
    /\ gui_pc = "idle"
    /\ \E val \in mults :
          \/ voltage_mult_ch1' = val /\ UNCHANGED voltage_mult_ch2
          \/ voltage_mult_ch2' = val /\ UNCHANGED voltage_mult_ch1
    /\ UNCHANGED << trigger_mode, use_trigger_filter, threshold_ch1, threshold_ch2,
                    time_per_div, auto_scale_enabled, fft_mode, audio_volume >>
    /\ UNCHANGED << thread_vars, pure_vars, ring_vars, publish_vars, src_fake_ch1,
                    src_fake_ch2, now >>

\* toggle_autoscale
ToggleAutoscale ==
    /\ gui_pc = "idle"
    /\ auto_scale_enabled' = ~auto_scale_enabled
    /\ UNCHANGED << trigger_mode, use_trigger_filter, threshold_ch1, threshold_ch2,
                    time_per_div, voltage_mult_ch1, voltage_mult_ch2, fft_mode, audio_volume >>
    /\ UNCHANGED << thread_vars, pure_vars, ring_vars, publish_vars, src_fake_ch1,
                    src_fake_ch2, now >>

\* toggle_fft
ToggleFft ==
    /\ gui_pc = "idle"
    /\ fft_mode' = ~fft_mode
    /\ UNCHANGED << trigger_mode, use_trigger_filter, threshold_ch1, threshold_ch2,
                    time_per_div, voltage_mult_ch1, voltage_mult_ch2, auto_scale_enabled,
                    audio_volume >>
    /\ UNCHANGED << thread_vars, pure_vars, ring_vars, publish_vars, src_fake_ch1,
                    src_fake_ch2, now >>

\* What one call of FakeSource.generate adds to its buffers: FakeStep samples per
\* channel, here all at one level (the generator's sine waves with noise and spikes
\* stay within 533 .. 3563 on both channels).
FakeLow == 1000
FakeHigh == 3000
FakeBatch(level_ch1, level_ch2) ==
    [ch1 |-> [i \in 1..FakeStep |-> level_ch1], ch2 |-> [i \in 1..FakeStep |-> level_ch2]]

GuiStep(max_readers) ==
    \/ ToggleUartOn(max_readers)
    \/ ToggleUartOff
    \/ JoinReturn
    \/ ToggleFreeze
    \/ UpdatePlot({ }, {0}, FALSE)
    \/ DrainGet
    \/ DrainEmpty({0}, FALSE)

Next ==
    \/ GuiStep(MaxReaders)
    \/ \E r \in Readers : ReaderStep(r, FrameChunks, FALSE)

Spec == Init /\ [][Next]_vars

\* One acquisition thread and the GUI thread. time.sleep and the timed ser.read
\* return and a runnable thread is scheduled: weak fairness on the thread's steps.
FairNext ==
    \/ GuiStep(1)
    \/ ReaderStep(1, FrameChunks, FALSE)

FairSpec == Init /\ [][FairNext]_vars /\ WF_vars(ReaderStep(1, FrameChunks, FALSE))

\* One acquisition thread on a device that never stops sending, and the display
\* timer. A runnable thread is scheduled: weak fairness on the steps of the thread
\* and on the steps of the drain loop (get_nowait returns at once, with a batch or
\* with queue.Empty).
DrainLoopStep == DrainGet \/ DrainEmpty({0}, FALSE)

StreamNext ==
    \/ ToggleUartOn(1)
    \/ UpdatePlot({ }, {0}, FALSE)
    \/ DrainLoopStep
    \/ EndlessReaderStep(1, FrameChunks)

StreamSpec ==
    /\ Init
    /\ [][StreamNext]_vars
    /\ WF_vars(DrainLoopStep)
    /\ WF_vars(EndlessReaderStep(1, FrameChunks))

\* One acquisition thread reading chunks of any size; nothing drains the queue.
DecNext ==
    \/ ToggleUartOn(1)
    \/ ReaderStep(1, ByteChunks, TRUE)

DecSpec == Init /\ [][DecNext]_vars

\* The display pipeline fed by the built-in generator: ticks of the display timer,
\* the trigger mode, the trigger filter and the time scale being changed in between
\* (the view stays in the time domain).
\* The clock stands still (the windows do not depend on it).
WinBatches == {FakeBatch(FakeLow, FakeLow), FakeBatch(FakeHigh, FakeLow),
               FakeBatch(FakeHigh, FakeHigh)}

WinNext ==
    \/ UpdatePlot(WinBatches, {0}, TRUE)
    \/ UpdateTriggerMode
    \/ ToggleTriggerFilter
    \/ UpdateTimeScale

WinSpec == Init /\ [][WinNext]_vars

\* The windows at a long time scale: ticks fed by the built-in generator, the trigger
\* mode and the time scale being changed in between, the time scale between a
\* request below the minimum and one of LongShow samples, long enough for the window
\* at a late trigger to run past the end of the buffer.
FitNext ==
    \/ UpdatePlot(WinBatches, {0}, TRUE)
    \/ UpdateTriggerMode
    \/ UpdateTimeScaleTo({1, LongShow})

FitSpec == Init /\ [][FitNext]_vars

\* The trigger configuration: ticks fed by the built-in generator, the two level
\* sliders and the filter switch being moved in between.
ThresholdLevels == {500, 2048, 3500}

IndepNext ==
    \/ UpdatePlot(WinBatches, {0}, TRUE)
    \/ UpdateThresholdCh1(ThresholdLevels)
    \/ UpdateThresholdCh2(ThresholdLevels)
    \/ ToggleTriggerFilter

IndepSpec == Init /\ [][IndepNext]_vars

\* The auto-scaler: ticks fed by the built-in generator at times 0, 5 or 6 seconds
\* apart, the voltage multipliers and the auto-scale switch being changed in between.
ScaleBatches == {FakeBatch(FakeLow, FakeLow), FakeBatch(FakeHigh, FakeHigh)}
ScaleDts == {0, AUTO_SCALE_TIMEOUT, AUTO_SCALE_TIMEOUT + 1}
ScaleMults == {1, 2}

ScaleNext ==
    \/ UpdatePlot(ScaleBatches, ScaleDts, TRUE)
    \/ UpdateVoltMult(ScaleMults)
    \/ ToggleAutoscale

ScaleSpec == Init /\ [][ScaleNext]_vars

(***************************************************************************)
(* MainWindow.audio_callback (AudioSpec)                                   *)
(***************************************************************************)
\* update_volume: the volume slider (0..100) moves to another position
UpdateVolume(volumes) ==
    /\ gui_pc = "idle"
    /\ \E v \in volumes : v # audio_volume /\ audio_volume' = v
    /\ UNCHANGED << trigger_mode, use_trigger_filter, threshold_ch1, threshold_ch2,
                    time_per_div, voltage_mult_ch1, voltage_mult_ch2, auto_scale_enabled,
                    fft_mode >>
    /\ UNCHANGED << thread_vars, pure_vars, ring_vars, publish_vars, src_fake_ch1,
                    src_fake_ch2, now >>

\* outdata[:] = 0
silence(frames) == [i \in 1..frames |-> [num |-> 0, den |-> 1]]

\* ratio = self.audio_sample_rate / FAKE_FS; input_needed = int(frames / ratio) + 2
input_needed(frames) == (frames * FAKE_FS) \div AUDIO_SAMPLE_RATE + 2

\* volts[-input_needed:] when there are that many samples, the samples repeated and
\* cut to input_needed otherwise
audio_data(volts, needed) ==
    IF Len(volts) >= needed
    THEN SubSeq(volts, Len(volts) - needed + 1, Len(volts))
    ELSE [i \in 1..needed |-> volts[((i - 1) % Len(volts)) + 1]]

\* np.linspace(0, len(audio_data) - 1, frames): point i (from 0) is
\* i * (n - 1) / (frames - 1), the single point 0 when frames = 1; interp1d(kind =
\* 'linear') at that point, as a fraction over d = frames - 1 (1 when frames = 1).
resample_den(frames) == IF frames = 1 THEN 1 ELSE frames - 1

resampled(data, frames) ==
    LET d == resample_den(frames)
    IN  [k \in 1..frames |->
            LET pos == (k - 1) * (Len(data) - 1)
                lo == pos \div d
                r == pos % d
            IN  IF r = 0 THEN data[lo + 1] * d
                ELSE data[lo + 1] * (d - r) + data[lo + 2] * r]

\* The 1.65 of (resampled - 1.65) / 1.65, in the units of the voltages.
AUDIO_CENTER == (165 * UnitsPerVolt) \div 100

RECURSIVE GCD(_, _)
GCD(a, b) == IF b = 0 THEN a ELSE GCD(b, a % b)

\* No clipping.
clip_nothing(num, den) == [num |-> num, den |-> den]

\* np.clip(normalized, -1.0, 1.0) of the fraction num / den, den > 0
clip(num, den) == [num |-> Max(0 - den, Min(num, den)), den |-> den]

\* normalized = (resampled - 1.65) / 1.65 * self.audio_volume, clipped: the fraction
\* (x - 1.65 d) * volume / (1.65 d * 100) with volume / 100 in lowest terms.
normalized(samples, d, volume) ==
    LET g == GCD(volume, 100)
    IN  [k \in 1..Len(samples) |->
            clip((samples[k] - AUDIO_CENTER * d) * (volume \div g),
                 AUDIO_CENTER * d * (100 \div g))]

\* A list that update_plot rewrites element by element, seen half-way.
referenced_list_rewritten(held, published) ==
    [i \in 1..Len(held) |->
        IF i <= Len(held) \div 2 /\ i <= Len(published) THEN published[i] ELSE held[i]]

\* The list object the callback's local volts refers to holds what it held when it
\* was published: update_plot builds new lists on every tick and nothing writes into
\* a published one.
referenced_list(held, published) == held

\* What the callback writes into outdata, from line 681 on.
outdata_of(volts, frames, volume) ==
    normalized(resampled(audio_data(volts, input_needed(frames)), frames),
               resample_den(frames), volume)

\* The callback starts with a request of frames samples.
\* if not self.last_data_volts or 'ch1' not in self.last_data_volts: outdata[:] = 0
AudioCheck(frame_counts) ==
    /\ c_pc \in {"none", "returned"}
    /\ \E frames \in frame_counts :
          /\ c_args' = [frames |-> frames, volts |-> << >>]
          /\ IF last_data_volts.ch1 = << >> /\ last_data_volts.ch2 = << >>
             THEN c_pc' = "returned" /\ c_ret' = silence(frames)
             ELSE c_pc' = "checked" /\ c_ret' = << >>
    /\ UNCHANGED << thread_vars, t_pc, t_data, t_threshold, t_rising, t_max_found,
                    t_min_width, t_out, display_vars >>

\* volts = self.last_data_volts['ch1']; if len(volts) < 10: outdata[:] = 0
AudioGet ==
    /\ c_pc = "checked"
    /\ c_args' = [c_args EXCEPT !.volts = last_data_volts.ch1]
    /\ IF Len(last_data_volts.ch1) < MinAudio
       THEN c_pc' = "returned" /\ c_ret' = silence(c_args.frames)
       ELSE c_pc' = "got" /\ c_ret' = << >>
    /\ UNCHANGED << thread_vars, t_pc, t_data, t_threshold, t_rising, t_max_found,
                    t_min_width, t_out, display_vars >>

\* The rest of the callback: resample, normalize, clip, outdata[:] = ...
AudioFill ==
    /\ c_pc = "got"
    /\ c_ret' = outdata_of(referenced_list(c_args.volts, last_data_volts.ch1),
                           c_args.frames, audio_volume)
    /\ c_pc' = "returned"
    /\ UNCHANGED << thread_vars, t_pc, t_data, t_threshold, t_rising, t_max_found,
                    t_min_width, t_out, c_args, display_vars >>

\* The audio thread's callbacks between the GUI thread's ticks and volume changes.
\* Of a tick the callback can observe one statement only, the assignment of
\* self.last_data_volts, so the tick is one step here too.
AudioFrames == 1..MaxAudioFrames
AudioVolumes == {0, 10, 100}

AudioNext ==
    \/ UpdatePlot(ScaleBatches, {0}, TRUE)
    \/ UpdateVolume(AudioVolumes)
    \/ AudioCheck(AudioFrames)
    \/ AudioGet
    \/ AudioFill

AudioSpec == Init /\ [][AudioNext]_vars

\* One acquisition thread and the display timer, each frame the timer takes from the
\* queue going through the display pipeline; before the UART is switched on the
\* built-in generator feeds it. The clock stands still.
TickBatches == {FakeBatch(FakeLow, FakeHigh)}

TickNext ==
    \/ ToggleUartOn(1)
    \/ UpdatePlot(TickBatches, {0}, TRUE)
    \/ DrainGet
    \/ DrainEmpty({0}, TRUE)
    \/ ReaderStep(1, FrameChunks, FALSE)

TickSpec == Init /\ [][TickNext]_vars

\* One acquisition thread and the display timer with the UART switched on before the
\* first tick, the trigger mode being changed between ticks. The clock stands still.
NormNext ==
    \/ ToggleUartOn(1)
    \/ UpdateTriggerMode
    \/ UpdatePlot({ }, {0}, TRUE)
    \/ DrainGet
    \/ DrainEmpty({0}, TRUE)
    \/ ReaderStep(1, FrameChunks, FALSE)

NormSpec == Init /\ [][NormNext]_vars

\* One acquisition thread and the display timer, the display being frozen and
\* released between ticks. The clock stands still.
FreezeNext ==
    \/ ToggleUartOn(1)
    \/ ToggleFreeze
    \/ UpdatePlot({ }, {0}, TRUE)
    \/ DrainGet
    \/ DrainEmpty({0}, TRUE)
    \/ ReaderStep(1, FrameChunks, FALSE)

FreezeSpec == Init /\ [][FreezeNext]_vars

\* The auto-scaler with time passing: ticks either at once or more than the timeout
\* after the one before, and a tick of the second kind eventually comes while the
\* clock has not reached MaxTime (the display timer keeps firing and time passes).
SettleDts == {0, AUTO_SCALE_TIMEOUT + 1}

SettleNext ==
    \/ UpdatePlot(ScaleBatches, SettleDts, TRUE)
    \/ UpdateVoltMult(ScaleMults)

\* The tick that comes dt after the one before can run and changes the state (the
\* clock at least): neither frozen nor on the UART source, and dt is left on the clock.
TickEnabled(dt) == ~is_frozen /\ ~use_uart /\ now + dt <= MaxTime

\* Weak fairness of the tick that comes after the timeout, written out with its
\* enabling condition: []<>~ENABLED <<A>>_vars \/ []<><<A>>_vars.
SettleSpec ==
    /\ Init
    /\ [][SettleNext]_vars
    /\ \/ []<>(~TickEnabled(AUTO_SCALE_TIMEOUT + 1))
       \/ []<><<UpdatePlot(ScaleBatches, {AUTO_SCALE_TIMEOUT + 1}, TRUE)>>_vars

(***************************************************************************)
(* calculate_measurements on IEEE doubles (MeasSpec)                       *)
(***************************************************************************)
\* The samples are doubles of one binade: sample k stands for (2^52 + k) units in
\* the last place, k in 0..MaxOffset.  A sum of j such samples is j * 2^52 + s units
\* with s far below 2^52, so it lies in the binade of j, where a double is a multiple
\* of 2^floor(log2 j) units: every operation below rounds as IEEE 754 binary64 does,
\* to the nearest double, ties to the even significand.
\* if not data or len(data) < 10: return None
MIN_SAMPLES == 10

RECURSIVE FloorLog2(_)
FloorLog2(j) == IF j <= 1 THEN 0 ELSE 1 + FloorLog2(j \div 2)

RECURSIVE Pow2(_)
Pow2(b) == IF b = 0 THEN 1 ELSE 2 * Pow2(b - 1)

\* s / g rounded to the nearest integer, ties to even.
NearestEven(s, g) ==
    LET q == s \div g
        r == s % g
    IN  IF 2 * r < g THEN q
        ELSE IF 2 * r > g THEN q + 1
        ELSE IF q % 2 = 0 THEN q ELSE q + 1

\* The double 0.0 and the double of sample k.
F64Zero == [j |-> 0, s |-> 0]
F64(k) == [j |-> 1, s |-> k]

\* x + y in binary64.
F64Add(x, y) ==
    LET j == x.j + y.j
        g == Pow2(FloorLog2(j))
    IN  [j |-> j, s |-> g * NearestEven(x.s + y.s, g)]

\* res = 0.; for i in range(n): res += a[lo + i]
RECURSIVE SumLoop(_, _, _, _)
SumLoop(res, a, lo, n) ==
    IF n = 0 THEN res ELSE SumLoop(F64Add(res, F64(a[lo])), a, lo + 1, n - 1)

\* r[0..7] += a[i..i+7] in blocks of 8 while i < n - n % 8.
RECURSIVE SumBlocks(_, _, _, _, _)
SumBlocks(r, a, lo, i, n) ==
    IF i >= n - (n % 8) THEN r
    ELSE SumBlocks([x \in 1..8 |-> F64Add(r[x], F64(a[lo + i + x - 1]))], a, lo, i + 8, n)

\* numpy's pairwise summation, which np.mean applies to a contiguous float64 array:
\* a plain loop below 8 elements, 8 accumulators added in blocks, combined as
\* ((r0+r1)+(r2+r3))+((r4+r5)+(r6+r7)) and followed by the remainder up to 128
\* elements, and two halves (the first a multiple of 8 long) above.
RECURSIVE pairwise_sum(_, _, _)
pairwise_sum(a, lo, n) ==
    IF n < 8 THEN SumLoop(F64Zero, a, lo, n)
    ELSE IF n <= 128
    THEN LET r == SumBlocks([x \in 1..8 |-> F64(a[lo + x - 1])], a, lo, 8, n)
             res == F64Add(F64Add(F64Add(r[1], r[2]), F64Add(r[3], r[4])),
                           F64Add(F64Add(r[5], r[6]), F64Add(r[7], r[8])))
         IN  SumLoop(res, a, lo + n - (n % 8), n % 8)
    ELSE LET h == n \div 2
             n2 == h - (h % 8)
         IN  F64Add(pairwise_sum(a, lo, n2), pairwise_sum(a, lo + n2, n - n2))

\* np.mean(arr): the sum divided by the count; the quotient of n * 2^52 + s units by
\* n is 2^52 + s / n units, rounded to a whole unit.
np_mean(arr) == NearestEven(pairwise_sum(arr, 1, Len(arr)).s, Len(arr))

\* calculate_measurements(data, fs) without its frequency estimate.  v_max - v_min
\* is exact: both are doubles of one binade.
Measurements(data) ==
    IF data = << >> \/ Len(data) < MIN_SAMPLES
    THEN [kind |-> "none", v_min |-> 0, v_max |-> 0, v_pp |-> 0, v_avg |-> 0]
    ELSE [kind |-> "value",
          v_min |-> SeqMin(data),
          v_max |-> SeqMax(data),
          v_pp |-> SeqMax(data) - SeqMin(data),
          v_avg |-> np_mean(data)]

\* The inputs: signals of up to MaxSamples samples on two levels.
MeasData ==
    {[i \in 1..n |-> IF i <= split THEN lv[1] ELSE lv[2]] :
        n \in 0..MaxSamples, split \in 0..MaxSamples,
        lv \in (0..MaxOffset) \X (0..MaxOffset)}

MeasInit ==
    /\ ThreadsInit
    /\ DisplayInit
    /\ t_pc = "none"
    /\ t_data = << >>
    /\ t_threshold = 0
    /\ t_rising = TRUE
    /\ t_max_found = 0
    /\ t_min_width = 0
    /\ t_out = << >>
    /\ c_pc = "call"
    /\ c_args \in [data : MeasData]
    /\ c_ret = << >>

MeasurementsCall ==
    /\ c_pc = "call"
    /\ c_ret' = Measurements(c_args.data)
    /\ c_pc' = "returned"
    /\ UNCHANGED << thread_vars, t_pc, t_data, t_threshold, t_rising, t_max_found,
                    t_min_width, t_out, c_args, display_vars >>

MeasNext == MeasurementsCall

MeasSpec == MeasInit /\ [][MeasNext]_vars

(***************************************************************************)
(* calculate_measurements: the frequency estimate (FreqSpec)               *)
(***************************************************************************)
\* The estimate on n = 64 samples, in fixed point: samples, window and twiddle
\* factors are whole multiples of 1 / FixScale.
FftSize == 64
FixScale == 10000

\* FixScale * sin(2 pi j / 64) for j = 0..16, rounded.
SinQuarter ==
    << 0, 980, 1951, 2903, 3827, 4714, 5556, 6344, 7071, 7730, 8315, 8819,
       9239, 9569, 9808, 9952, 10000 >>

\* FixScale * np.hanning(64)[n] = FixScale * (0.5 - 0.5 cos(2 pi n / 63)) for
\* n = 0..31, rounded; the window is symmetric.
HannHalf ==
    << 0, 25, 99, 222, 393, 609, 869, 1170, 1509, 1883, 2287, 2719, 3173,
       3646, 4132, 4626, 5125, 5622, 6113, 6592, 7056, 7500, 7919, 8308,
       8665, 8986, 9266, 9505, 9698, 9845, 9944, 9994 >>

sin64(j) ==
    LET m == j % FftSize
    IN  IF m <= 16 THEN SinQuarter[m + 1]
        ELSE IF m <= 32 THEN SinQuarter[32 - m + 1]
        ELSE IF m <= 48 THEN 0 - SinQuarter[m - 32 + 1]
        ELSE 0 - SinQuarter[64 - m + 1]

cos64(j) == sin64(j + 16)

\* window = np.hanning(n), n from 0
hanning(n) == IF n < 32 THEN HannHalf[n + 1] ELSE HannHalf[63 - n + 1]

RECURSIVE SeqSum(_, _)
SeqSum(q, n) == IF n = 0 THEN 0 ELSE q[n] + SeqSum(q, n - 1)

\* The largest r with r * r <= v, between lo and hi.
RECURSIVE IsqrtBetween(_, _, _)
IsqrtBetween(v, lo, hi) ==
    IF lo >= hi THEN lo
    ELSE LET mid == (lo + hi + 1) \div 2
         IN  IF mid * mid <= v THEN IsqrtBetween(v, mid, hi)
             ELSE IsqrtBetween(v, lo, mid - 1)

Isqrt(v) == IsqrtBetween(v, 0, Min(v, 46340))

\* arr_ac * window, with arr_ac = arr - v_avg
windowed(arr) ==
    LET v_avg == SeqSum(arr, Len(arr)) \div Len(arr)
    IN  [t \in 1..Len(arr) |-> ((arr[t] - v_avg) * hanning(t - 1)) \div (FixScale * 10)]

\* mags = np.abs(np.fft.rfft(arr_ac * window)): bins 0..n/2, bin k at index k + 1
rfft_mags(y) ==
    [b \in 1..(FftSize \div 2 + 1) |->
        LET re == SeqSum([t \in 1..FftSize |-> y[t] * cos64((b - 1) * (t - 1))], FftSize)
                  \div FixScale
            im == SeqSum([t \in 1..FftSize |-> 0 - y[t] * sin64((b - 1) * (t - 1))], FftSize)
                  \div FixScale
        IN  Isqrt(re * re + im * im)]

\* idx = np.argmax(mags[1:]) + 1: the first bin of the greatest magnitude, bin 0 aside
RECURSIVE argmax_from(_, _, _)
argmax_from(mags, best, b) ==
    IF b > Len(mags) THEN best - 1
    ELSE argmax_from(mags, IF mags[b] > mags[best] THEN b ELSE best, b + 1)

\* freq = freqs[idx] if peak_mag > 3 * np.mean(mags) else None; freqs[idx] is
\* idx * fs / n, returned as the bin idx.
frequency_estimate(arr) ==
    LET mags == rfft_mags(windowed(arr))
        idx == argmax_from(mags, 2, 3)
    IN  IF mags[idx + 1] * Len(mags) > 3 * SeqSum(mags, Len(mags))
        THEN [kind |-> "freq", bin |-> idx]
        ELSE [kind |-> "none", bin |-> 0]

\* The inputs: 64 samples of a sinusoid of amplitude 1 at a frequency of f_num / f_den
\* bins (of fs / 64 each): sines and cosines at the whole bins up to MaxBin, the
\* sampling rate's half aside, where the sine is sampled at its zeros; and the cosine
\* of 46 / 95 cycles per sample, 2944 / 95 = 30.99 bins.
WholeBinSinusoids ==
    {[f_num |-> k, f_den |-> 1,
      data |-> [t \in 1..FftSize |-> sin64(k * (t - 1) + 16 * ph)]] :
        k \in (1..MaxBin) \ {FftSize \div 2}, ph \in {0, 1}}

NearHalfRateCosine ==
    [f_num |-> 2944, f_den |-> 95,
     data |-> << 10000, 0 - 9951, 9804, 0 - 9560, 9223, 0 - 8795, 8280, 0 - 7684,
                7012, 0 - 6272, 5469, 0 - 4613, 3712, 0 - 2774, 1809, 0 - 826,
                0 - 165, 1155, 0 - 2133, 3090, 0 - 4017, 4904, 0 - 5743, 6526,
                0 - 7244, 7891, 0 - 8461, 8947, 0 - 9346, 9652, 0 - 9864, 9978,
                0 - 9995, 9913, 0 - 9733, 9458, 0 - 9090, 8633, 0 - 8090, 7468,
                0 - 6773, 6011, 0 - 5190, 4318, 0 - 3403, 2455, 0 - 1483, 496, 496,
                0 - 1483, 2455, 0 - 3403, 4318, 0 - 5190, 6011, 0 - 6773, 7468,
                0 - 8090, 8633, 0 - 9090, 9458, 0 - 9733, 9913, 0 - 9995 >>]

FreqInputs == WholeBinSinusoids \cup {NearHalfRateCosine}

FreqInit ==
    /\ ThreadsInit
    /\ DisplayInit
    /\ t_pc = "none"
    /\ t_data = << >>
    /\ t_threshold = 0
    /\ t_rising = TRUE
    /\ t_max_found = 0
    /\ t_min_width = 0
    /\ t_out = << >>
    /\ c_pc = "call"
    /\ c_args \in FreqInputs
    /\ c_ret = << >>

FrequencyCall ==
    /\ c_pc = "call"
    /\ c_ret' = frequency_estimate(c_args.data)
    /\ c_pc' = "returned"
    /\ UNCHANGED << thread_vars, t_pc, t_data, t_threshold, t_rising, t_max_found,
                    t_min_width, t_out, c_args, display_vars >>

FreqNext == FrequencyCall

FreqSpec == FreqInit /\ [][FreqNext]_vars

(***************************************************************************)
(* The hand-off queue                                                      *)
(***************************************************************************)
\* C1: in every reachable state the hand-off queue holds at most its capacity of 8
\* batches, whatever the interleaving of pushes, drains, frozen ticks and toggles.
C1_QueueNeverExceedsCapacity == Len(serial_queue) <= QueueMaxSize

\* C1's case: the display is frozen (ticks do not drain), the queue is at capacity
\* and a reader has just found it full.
C1_FullQueueWhileFrozen ==
    /\ is_frozen
    /\ Len(serial_queue) = QueueMaxSize
    /\ \E r \in Readers : r_pc[r] = "drop"

\* C2: when a drain-to-latest ends (get_nowait raises queue.Empty after at least one
\* get), the batch kept is the batch of the most recent put into the queue.
C2_DrainKeepsMostRecentPut ==
    [][(gui_pc = "drain" /\ gui_pc' = "idle" /\ latest # << >>) => latest = last_enq]_vars

\* C3: when a reader's push step ends (the first put_nowait succeeded, or the second
\* one has been tried), the batch it decoded is the newest entry of the queue.
C3_DecodedBatchIsQueued ==
    [][\A r \in Readers :
          (\/ r_pc[r] = "put" /\ ~QFull(serial_queue) /\ r_frame'[r] # r_frame[r]
           \/ r_pc[r] = "reput" /\ r_pc'[r] # "reput")
             => (serial_queue' # << >> /\ serial_queue'[Len(serial_queue')] = r_frame[r][1])]_vars

(***************************************************************************)
(* The decoder and the residual buffer (DecSpec)                           *)
(***************************************************************************)
\* C4: between reads on an open connection that has delivered T bytes, the reader
\* has decoded floor(T / FRAME_BYTES) batches, the j-th from bytes (j-1)*FRAME_BYTES+1
\* .. j*FRAME_BYTES of the connection, and its residual buffer is the last
\* T mod FRAME_BYTES bytes.
C4_BatchesAndResidualOfConnection ==
    \A r \in Readers :
        (r_ser[r] = "open" /\ r_pc[r] \in {"check", "read"}) =>
            LET T == Len(rx_bytes[r])
                k == T \div FRAME_BYTES
            IN  /\ Len(rx_batches[r]) = k
                /\ \A j \in 1..Len(rx_batches[r]) :
                       j <= k =>
                          rx_batches[r][j] =
                             DecodeFrame(SubSeq(rx_bytes[r], (j - 1) * FRAME_BYTES + 1, j * FRAME_BYTES))
                /\ r_buf[r] = SubSeq(rx_bytes[r], k * FRAME_BYTES + 1, T)

\* C5: a connection starts with an empty residual buffer: before the first byte of
\* a connection is read, no byte of an earlier connection is left in self._buf.
C5_ResidualEmptyOnNewConnection ==
    \A r \in Readers :
        (r_pc[r] = "read" /\ rx_bytes[r] = << >>) => r_buf[r] = << >>

(***************************************************************************)
(* The life of an acquisition thread                                       *)
(***************************************************************************)
\* C6: once stop is requested the thread eventually terminates, and a terminated
\* thread holds no port (self.ser is None).
C6_StopLeadsToTermination ==
    /\ \A r \in Readers : r_stop[r] ~> (r_pc[r] = "done" /\ r_ser[r] = "None")
    /\ \A r \in Readers : [](r_pc[r] = "done" => r_ser[r] = "None")

\* C6's case: a thread that was streaming has been stopped and has terminated.
C6_StoppedAfterStreaming ==
    \E r \in Readers : r_stop[r] /\ r_pc[r] = "done" /\ wire_pos > 0

\* C7: a failed open is followed by another open attempt unless stop is requested,
\* and the thread terminates only from the loop test, with the stop flag set.
C7_FailedOpenIsRetried ==
    /\ \A r \in Readers : (r_pc[r] = "retry_sleep") ~> (r_pc[r] = "open" \/ r_stop[r])
    /\ [][\A r \in Readers :
             (r_pc[r] # "done" /\ r_pc'[r] = "done") => (r_pc[r] = "check" /\ r_stop[r])]_vars

\* C7's case: an open has failed, stop is not requested, and the thread is alive,
\* backing off before its next attempt.
C7_BackingOffAfterFailedOpen ==
    \E r \in Readers : r_pc[r] = "retry_sleep" /\ ~r_stop[r]

\* C8: at most one acquisition thread is alive (started and not terminated).
C8_AtMostOneReaderAlive ==
    Cardinality({r \in Readers : r_pc[r] \notin {"new", "done"}}) <= 1

(***************************************************************************)
(* The trigger detector (TrigSpec)                                         *)
(***************************************************************************)
\* Index i of t_data is a crossing of t_threshold in the direction t_rising that is
\* held for t_min_width samples, all of them inside t_data.
GenuineHeldCrossing(i) ==
    /\ 0 <= i
    /\ i + t_min_width <= Len(t_data) - 1
    /\ IF t_rising
       THEN /\ t_data[i + 1] < t_threshold
            /\ \A k \in 1..t_min_width : t_data[i + k + 1] >= t_threshold
       ELSE /\ t_data[i + 1] > t_threshold
            /\ \A k \in 1..t_min_width : t_data[i + k + 1] <= t_threshold

\* C9: every index find_triggers returns is a crossing held for min_width samples.
C9_ReturnedIndicesAreHeldCrossings ==
    t_pc = "returned" => \A n \in 1..Len(t_out) : GenuineHeldCrossing(t_out[n])

\* C9's case: with min_width = 3 a crossing is returned, and an earlier crossing
\* that was not held for 3 samples (a glitch) is not.
C9_GlitchSkippedCrossingReturned ==
    /\ t_pc = "returned"
    /\ t_min_width = 3
    /\ t_rising
    /\ Len(t_out) = 1
    /\ \E g \in 0..(t_out[1] - 1) :
          /\ t_data[g + 1] < t_threshold
          /\ t_data[g + 2] >= t_threshold
          /\ ~GenuineHeldCrossing(g)

\* The first k elements of the set S of integers, in increasing order.
RECURSIVE FirstOf(_, _)
FirstOf(S, k) ==
    IF k = 0 \/ S = {}
    THEN << >>
    ELSE LET m == CHOOSE x \in S : \A y \in S : x <= y
         IN  << m >> \o FirstOf(S \ {m}, k - 1)

\* C10: find_triggers returns the first max_found held crossings of the scan range
\* 0 .. len(data) - min_width - 1, in increasing order (all of them when fewer).
C10_FirstMaxFoundCrossings ==
    t_pc = "returned" =>
        t_out = FirstOf({i \in 0..(Len(t_data) - t_min_width - 1) : GenuineHeldCrossing(i)},
                        t_max_found)

\* C11: for every max_found >= 0 the list find_triggers returns has at most max_found
\* indices.
C11_AtMostMaxFoundIndices ==
    t_pc = "returned" => Len(t_out) <= t_max_found

(***************************************************************************)
(* The smoothing filter (AvgSpec)                                          *)
(***************************************************************************)
\* data[lo] + ... + data[hi], added up sample by sample.
RECURSIVE NaiveSum(_, _, _)
NaiveSum(data, lo, hi) ==
    IF lo > hi THEN 0 ELSE data[lo] + NaiveSum(data, lo + 1, hi)

\* C13: moving_average(data, w) with w >= 1 returns data unchanged when
\* len(data) < w; otherwise it returns len(data) - w + 1 values, and w times the
\* j-th value is the sum of the j-th window data[j .. j+w-1].
C13_MovingAverageIsWindowMean ==
    c_pc = "returned" =>
        LET data == c_args.data
            w == c_args.window_size
        IN  IF Len(data) < w
            THEN c_ret = data
            ELSE /\ Len(c_ret) = Len(data) - w + 1
                 /\ \A j \in 1..Len(c_ret) :
                        /\ c_ret[j].den # 0
                        /\ w * c_ret[j].num = c_ret[j].den * NaiveSum(data, j, j + w - 1)

\* C13's case: a window of at least 2 slides over data at least 2 longer, so a
\* later window has lost a sample the first one had.
C13_WindowSlides ==
    /\ c_pc = "returned"
    /\ c_args.window_size >= 2
    /\ Len(c_args.data) >= c_args.window_size + 2
    /\ Len(c_ret) >= 3
    /\ c_args.data[1] = 4095
    /\ c_ret[3].num < c_ret[1].num

(***************************************************************************)
(* The trigger stage with the smoothing filter (StageSpec)                 *)
(***************************************************************************)
\* The filtered series of raw: w times its sample at index f (from 0), its length,
\* and w times the threshold; raw itself when raw is shorter than the window.
FilteredTimesW(raw, w, f) ==
    IF Len(raw) < w THEN raw[f + 1] ELSE NaiveSum(raw, f + 1, f + w)

FilteredLen(raw, w) == IF Len(raw) < w THEN Len(raw) ELSE Len(raw) - w + 1

ThresholdTimesW(raw, w, threshold) == IF Len(raw) < w THEN threshold ELSE threshold * w

\* Index f of the filtered series of raw is a crossing held for TRIGGER_MIN_WIDTH
\* samples, all of them inside the filtered series.
FilteredHeldCrossing(raw, w, threshold, rising, f) ==
    /\ 0 <= f
    /\ f + TRIGGER_MIN_WIDTH <= FilteredLen(raw, w) - 1
    /\ IF rising
       THEN /\ FilteredTimesW(raw, w, f) < ThresholdTimesW(raw, w, threshold)
            /\ \A k \in 1..TRIGGER_MIN_WIDTH :
                   FilteredTimesW(raw, w, f + k) >= ThresholdTimesW(raw, w, threshold)
       ELSE /\ FilteredTimesW(raw, w, f) > ThresholdTimesW(raw, w, threshold)
            /\ \A k \in 1..TRIGGER_MIN_WIDTH :
                   FilteredTimesW(raw, w, f + k) <= ThresholdTimesW(raw, w, threshold)

TriggersIn(raw, threshold) ==
    channel_triggers(raw, threshold, trigger_rising, use_trigger_filter, TRIGGER_AVG_WINDOW)

ShownOf(raw) == samples_to_show(time_per_div, Len(raw))

\* raw[p .. p + n - 1] (p from 0) and the most recent n samples of raw.
SamplesFrom(raw, p, n) == [i \in 1..n |-> raw[p + i]]
MostRecent(raw, n) == [i \in 1..n |-> raw[Len(raw) - n + i]]

\* The window the trigger found in raw selects: from the trigger if it fits, the most
\* recent samples otherwise.
TriggeredOrRecent(raw, threshold) ==
    IF TriggersIn(raw, threshold) # << >>
       /\ TriggersIn(raw, threshold)[1] + ShownOf(raw) <= Len(raw)
    THEN SamplesFrom(raw, TriggersIn(raw, threshold)[1], ShownOf(raw))
    ELSE MostRecent(raw, ShownOf(raw))

\* A tick of the display timer that gets as far as the windowing stage.
WindowingTick == UpdatePlot(WinBatches, {0}, TRUE) /\ ~is_frozen /\ ~use_uart

C15_NormalSuppressedWithoutBothTriggers ==
    [][(WindowingTick /\ trigger_mode = "NORMAL")
       => IF TriggersIn(buffer_ch1', threshold_ch1) = << >>
             \/ TriggersIn(buffer_ch2', threshold_ch2) = << >>
          THEN UNCHANGED << last_data_volts, x_min, x_max, y_min, y_max,
                            last_expansion_time, meas >>
          ELSE /\ last_data_volts'.ch1
                    = to_volts(TriggeredOrRecent(buffer_ch1', threshold_ch1),
                               VOLTAGE_MULT_CH1, voltage_mult_ch1)
               /\ last_data_volts'.ch2
                    = to_volts(TriggeredOrRecent(buffer_ch2', threshold_ch2),
                               VOLTAGE_MULT_CH2, voltage_mult_ch2)]_vars

\* In NORMAL mode the ring buffer of channel 1 holds low samples only, and what is
\* published for it still shows a high one: the ticks that took the high samples out
\* of the buffer published nothing.
C15_StaleWindowKept ==
    /\ trigger_mode = "NORMAL"
    /\ \A i \in 1..Len(buffer_ch1) : buffer_ch1[i] = FakeLow
    /\ \E i \in 1..Len(last_data_volts.ch1) :
          last_data_volts.ch1[i] = to_volts(<< FakeHigh >>, VOLTAGE_MULT_CH1, voltage_mult_ch1)[1]

(***************************************************************************)
(* The auto-scaler (ScaleSpec)                                             *)
(***************************************************************************)
\* A tick of the display timer that runs the auto-scaler (the windows are never empty).
AutoScaleUpdate ==
    UpdatePlot(ScaleBatches, ScaleDts, TRUE) /\ ~is_frozen /\ ~use_uart
    /\ auto_scale_enabled /\ ~fft_mode

\* What the tick has just drawn, both channels together.
AllPublished == last_data_volts.ch1 \o last_data_volts.ch2

\* C16: an auto-scale update at a time within auto_scale_timeout of
\* last_expansion_time never contracts the stored Y-range (y_min does not increase,
\* y_max does not decrease), and every change of the range is stamped: a contraction
\* needs more than the timeout since the last expansion or contraction.
C16_NoContractionWithinTimeout ==
    [][/\ (AutoScaleUpdate /\ now' - last_expansion_time <= AUTO_SCALE_TIMEOUT)
          => (y_min' <= y_min /\ y_max' >= y_max)
       /\ (y_min' # y_min \/ y_max' # y_max) => last_expansion_time' = now']_vars

\* The range is wider than the target of what is drawn, on an update made after
\* the last expansion and within the timeout of it: the update did not contract.
C16_WideRangeHeldWithinTimeout ==
    /\ auto_scale_enabled
    /\ AllPublished # << >>
    /\ now > last_expansion_time
    /\ now - last_expansion_time <= AUTO_SCALE_TIMEOUT
    /\ y_max > target_y_max(AllPublished)

\* C17: after every auto-scale update the stored Y-range contains the target range,
\* hence every sample drawn, with y_min < y_max; and when the target exceeded a
\* bound, last_expansion_time is the time of that update.
C17_RangeContainsTargetAfterUpdate ==
    [][AutoScaleUpdate
       => /\ AllPublished' # << >>
          /\ y_min' <= target_y_min(AllPublished')
          /\ y_max' >= target_y_max(AllPublished')
          /\ \A i \in 1..Len(AllPublished') :
                y_min' <= AllPublished'[i] /\ AllPublished'[i] <= y_max'
          /\ y_min' < y_max'
          /\ (target_y_min(AllPublished') < y_min \/ target_y_max(AllPublished') > y_max)
                => last_expansion_time' = now']_vars

\* After a contraction the lower bound has been expanded again: it is the target's,
\* above the initial 0, under an upper bound wider than the target's, and the range
\* was stamped at the present time.
C17_LowerBoundExpandedAgain ==
    /\ auto_scale_enabled
    /\ AllPublished # << >>
    /\ y_min > 0
    /\ y_min = target_y_min(AllPublished)
    /\ y_max > target_y_max(AllPublished)
    /\ last_expansion_time = now
    /\ now > AUTO_SCALE_TIMEOUT

(***************************************************************************)
(* The ring buffers (RingSpec)                                             *)
(***************************************************************************)
\* C18: after any sequence of ingests a ring buffer of capacity N holds exactly the
\* last N elements of its initial N zeros followed by every ingested sample in the
\* order of ingestion, and its length is N.
C18_RingHoldsLastNOfHistory ==
    /\ Len(c_ret) = BufferSize
    /\ c_ret = MostRecent([i \in 1..BufferSize |-> 0] \o c_args, BufferSize)

\* More than N samples have been ingested, in more than one batch: every initial zero
\* and the oldest samples have been evicted, and the buffer holds both levels.
C18_InitialZerosAndOldestEvicted ==
    /\ Len(c_args) > BufferSize
    /\ c_args[1] # c_ret[1]
    /\ \E i, j \in 1..Len(c_ret) : c_ret[i] = 1 /\ c_ret[j] = 2

(***************************************************************************)
(* The frame decoder (FrameSpec)                                           *)
(***************************************************************************)
\* The low 12 bits of the 16-bit value with low byte lo and high byte hi: the low
\* byte and the low 4 bits of the high byte.
Low12(lo, hi) == lo + 256 * (hi % 16)

\* C19: for every byte pattern the decoder returns, for the j-th 4-byte group
\* (lo1, hi1, lo2, hi2) of the frame, the low 12 bits of (hi1, lo1) as the j-th
\* sample of ch1 and those of (hi2, lo2) as the j-th sample of ch2: every sample is
\* in 0..4095, the upper 4 bits of a high byte have no effect, and both channels
\* have frame_bytes / 4 samples.
C19_DecodeIsLow12BitsInGroupOrder ==
    c_pc = "returned"
    => /\ Len(c_ret.ch1) = Len(c_args) \div 4
       /\ Len(c_ret.ch2) = Len(c_args) \div 4
       /\ \A j \in 1..(Len(c_args) \div 4) :
             /\ c_ret.ch1[j] = Low12(c_args[4 * j - 3], c_args[4 * j - 2])
             /\ c_ret.ch2[j] = Low12(c_args[4 * j - 1], c_args[4 * j])
             /\ c_ret.ch1[j] \in 0..4095
             /\ c_ret.ch2[j] \in 0..4095

\* A frame of two groups has been decoded whose high bytes have upper bits set, into
\* different samples for the two groups of channel 1.
C19_UpperBitsSetTwoGroups ==
    /\ c_pc = "returned"
    /\ Len(c_args) = 8
    /\ c_args[2] = 255
    /\ c_args[6] = 16
    /\ c_ret.ch1 = << 3840 + c_args[1], c_args[5] >>
    /\ c_ret.ch1[1] # c_ret.ch1[2]

(***************************************************************************)
(* Who changes the display state (TickSpec)                                *)
(***************************************************************************)
\* A display tick: update_plot from its entry, or from the end of its drain loop.
DisplayTick == UpdatePlot(TickBatches, {0}, TRUE) \/ DrainEmpty({0}, TRUE)

\* C20: no step of the acquisition thread changes the ring buffers, the ScaleState or
\* the published voltage arrays, nor any other field of MainWindow but the hand-off
\* queue; the ring buffers, the ScaleState and the published arrays change only on a
\* display tick.
C20_DisplayStateChangedOnlyByTick ==
    [][/\ ReaderStep(1, FrameChunks, FALSE)
          => UNCHANGED << buffer_ch1, buffer_ch2, x_min, x_max, y_min, y_max,
                          last_expansion_time, last_data_volts, meas, config_vars,
                          use_uart, serial_reader, is_frozen, thawed, gui_pc, latest >>
       /\ (<< buffer_ch1, buffer_ch2, x_min, x_max, y_min, y_max, last_expansion_time,
              last_data_volts >>' # << buffer_ch1, buffer_ch2, x_min, x_max, y_min,
                                       y_max, last_expansion_time, last_data_volts >>)
          => DisplayTick]_vars

\* The thread is about to queue a frame while the ring buffer of channel 1 already
\* holds a sample that is neither an initial zero nor the generator's: the thread
\* runs on after a tick has ingested and published one of its frames.
C20_ThreadRunsAfterFrameIngested ==
    /\ r_pc[1] = "put"
    /\ use_uart
    /\ \E i \in 1..Len(buffer_ch1) : buffer_ch1[i] \notin {0, FakeLow}
    /\ last_data_volts.ch1 # << >>

(***************************************************************************)
(* The drain loop against a device that never stops (StreamSpec)           *)
(***************************************************************************)
\* C22: every drain-to-latest step of a display tick terminates: a tick that has
\* entered the drain loop eventually observes the queue empty and leaves the loop,
\* also while the acquisition thread keeps pushing batches.
C22_DrainLoopTerminates == (gui_pc = "drain") ~> (gui_pc = "idle")

(***************************************************************************)
(* The producer's eviction (FairSpec)                                      *)
(***************************************************************************)
\* C27: the acquisition thread removes a batch from the hand-off queue only when the
\* queue is full at the moment of the removal, and then exactly one batch, the
\* oldest.
C27_EvictionOnlyFromFullQueue ==
    [][(\E r \in Readers : RDrop(r)) /\ serial_queue' # serial_queue
       => /\ QFull(serial_queue)
          /\ serial_queue' = Tail(serial_queue)]_vars

(***************************************************************************)
(* Suppressed ticks (NormSpec)                                             *)
(***************************************************************************)
\* The end of a tick's drain loop with a batch in hand, in NORMAL mode, the buffers
\* having no trigger on at least one channel once the batch is in them.
SuppressedTick ==
    /\ DrainEmpty({0}, TRUE)
    /\ latest # << >>
    /\ trigger_mode = "NORMAL"
    /\ \/ TriggersIn(buffer_ch1', threshold_ch1) = << >>
       \/ TriggersIn(buffer_ch2', threshold_ch2) = << >>

\* C30: on a NORMAL-mode tick whose update is suppressed for lack of a trigger, the
\* batch drained from the queue is consumed and ingested into both ring buffers
\* (each buffer is the last N of what it held followed by the batch); only the
\* published arrays, the scaling and the measurements stay as they were.
C30_SuppressedTickStillIngests ==
    [][SuppressedTick
       => /\ buffer_ch1' = MostRecent(buffer_ch1 \o latest[1].ch1, BufferSize)
          /\ buffer_ch2' = MostRecent(buffer_ch2 \o latest[1].ch2, BufferSize)
          /\ latest' = << >>
          /\ UNCHANGED << last_data_volts, x_min, x_max, y_min, y_max,
                          last_expansion_time, meas >>]_vars

\* Nothing has been published, in NORMAL mode, and both ring buffers hold samples
\* that came through the queue: suppressed ticks have ingested them.
C30_RingAdvancedNothingPublished ==
    /\ trigger_mode = "NORMAL"
    /\ use_uart
    /\ last_data_volts.ch1 = << >>
    /\ \E i \in 1..Len(buffer_ch1) : buffer_ch1[i] # 0
    /\ \E i \in 1..Len(buffer_ch2) : buffer_ch2[i] # 0
    /\ buffer_ch1[1] = 0

(***************************************************************************)
(* What the ticks ingest (TickSpec)                                        *)
(***************************************************************************)
\* The k-th batch (from 0) the acquisition thread decodes when its reads return whole
\* frames, and the batches it has decoded so far.
WireFrame(k) == DecodeFrame(WireChunk(k * FRAME_BYTES, FRAME_BYTES))
DecodedSoFar == {k \in 0..(MaxFrames - 1) : (k + 1) * FRAME_BYTES <= wire_pos - Len(r_buf[1])}

\* The end of a tick's drain loop with a batch in hand.
IngestTick == DrainEmpty({0}, TRUE) /\ latest # << >>

\* C29: with a single reader, each tick ingests at most one batch; that batch is one
\* the thread has decoded, and it was decoded later than the batch ingested before
\* it (the samples at the end of the ring buffer): the ingested batches are a
\* subsequence of the decoded ones, none twice and none out of order.
C29_IngestedSubsequenceOfDecoded ==
    [][IngestTick
       => /\ buffer_ch1' = MostRecent(buffer_ch1 \o latest[1].ch1, BufferSize)
          /\ buffer_ch2' = MostRecent(buffer_ch2 \o latest[1].ch2, BufferSize)
          /\ \E k \in DecodedSoFar :
                /\ latest[1] = WireFrame(k)
                /\ \A j \in 0..(MaxFrames - 1) :
                      MostRecent(buffer_ch1, SamplesPerChannel) = WireFrame(j).ch1
                      => j < k]_vars

\* The two batches ingested last are decoded batches j and k with a batch between
\* them that no tick ingested.
C29_BatchSkippedBetweenIngested ==
    \E j, k \in 0..(MaxFrames - 1) :
        /\ j + 1 < k
        /\ MostRecent(buffer_ch1, SamplesPerChannel) = WireFrame(k).ch1
        /\ SubSeq(buffer_ch1, BufferSize - 2 * SamplesPerChannel + 1,
                  BufferSize - SamplesPerChannel) = WireFrame(j).ch1

(***************************************************************************)
(* Contraction (SettleSpec)                                                *)
(***************************************************************************)
\* The stored Y-range is the target range of what is drawn.
RangeIsTarget ==
    /\ AllPublished # << >>
    /\ y_min = target_y_min(AllPublished)
    /\ y_max = target_y_max(AllPublished)

\* C28: an auto-scale update on which neither target bound exceeds the stored range
\* and more than the timeout has passed since last_expansion_time sets both bounds to
\* the target range, which does not widen the range, and the timestamp to now; and so,
\* while ticks continue and time passes, from any time t the range comes to equal the
\* target range unless the data exceeds it (an expansion is stamped after t).
C28_ContractionToTargetAfterTimeout ==
    /\ [][(/\ UpdatePlot(ScaleBatches, SettleDts, TRUE)
           /\ target_y_min(AllPublished') >= y_min
           /\ target_y_max(AllPublished') <= y_max
           /\ now' - last_expansion_time > AUTO_SCALE_TIMEOUT)
          => /\ y_min' = target_y_min(AllPublished')
             /\ y_max' = target_y_max(AllPublished')
             /\ y_min' >= y_min
             /\ y_max' <= y_max
             /\ last_expansion_time' = now']_vars
    /\ \A t \in 0..(MaxTime - AUTO_SCALE_TIMEOUT - 1) :
          (now = t) ~> (RangeIsTarget \/ last_expansion_time > t)

\* The range has been contracted: its lower bound is above the initial 0, which no
\* expansion raises, it is the target range, and it was stamped after the timeout.
C28_RangeContracted ==
    /\ RangeIsTarget
    /\ y_min > 0
    /\ last_expansion_time = now
    /\ now > AUTO_SCALE_TIMEOUT

(***************************************************************************)
(* Measurements (MeasSpec)                                                 *)
(***************************************************************************)
\* C25: calculate_measurements returns no measurement exactly when the input has
\* fewer than 10 samples; for 10 samples or more it returns v_pp = v_max - v_min and
\* an average between the minimum and the maximum.
C25_MeasurementsWithinMinAndMax ==
    c_pc = "returned" =>
        /\ (c_ret.kind = "none") <=> (Len(c_args.data) < 10)
        /\ Len(c_args.data) >= 10
           => /\ c_ret.v_pp = c_ret.v_max - c_ret.v_min
              /\ c_ret.v_min <= c_ret.v_avg
              /\ c_ret.v_avg <= c_ret.v_max

(***************************************************************************)
(* Independence of the two channels' triggers (IndepSpec)                  *)
(***************************************************************************)
\* The trigger result a tick computes for a channel from its ring buffer: raw_ch1 is
\* list(self.buffer_ch1) whichever the source.
TriggersOf(raw, threshold, use_filter) ==
    channel_triggers(raw, threshold, trigger_rising, use_filter, TRIGGER_AVG_WINDOW)

\* C23: a channel's trigger result is determined by that channel's buffer and that
\* channel's own trigger configuration: a step that changes neither, whatever it does
\* to the other channel's samples, threshold or filter setting, leaves it unchanged.
\* The program has one filter switch, so a change of the other channel's filter
\* setting is a toggle of that switch.
C23_ChannelTriggersIndependent ==
    [][/\ (buffer_ch1' = buffer_ch1 /\ threshold_ch1' = threshold_ch1)
          => TriggersOf(buffer_ch1', threshold_ch1', use_trigger_filter')
             = TriggersOf(buffer_ch1, threshold_ch1, use_trigger_filter)
       /\ (buffer_ch2' = buffer_ch2 /\ threshold_ch2' = threshold_ch2)
          => TriggersOf(buffer_ch2', threshold_ch2', use_trigger_filter')
             = TriggersOf(buffer_ch2, threshold_ch2, use_trigger_filter)]_vars

(***************************************************************************)
(* The audio callback (AudioSpec)                                          *)
(***************************************************************************)
\* C24: whatever has been published and for every frame count of at least 1, the
\* callback fills exactly that many samples, each within [-1, 1]; and all of them
\* are zero while no window has been published.
C24_CallbackFillsFramesWithinUnitRange ==
    /\ c_pc = "returned"
       => /\ c_args.frames >= 1
          /\ Len(c_ret) = c_args.frames
          /\ \A k \in 1..Len(c_ret) :
                /\ c_ret[k].den > 0
                /\ 0 - c_ret[k].den <= c_ret[k].num
                /\ c_ret[k].num <= c_ret[k].den
    /\ (c_pc = "returned" /\ last_data_volts.ch1 = << >>)
       => \A k \in 1..Len(c_ret) : c_ret[k].num = 0

\* A callback has filled the largest request from a published window that is too
\* short for it, and its samples are at the upper end of the range: the signal is
\* above 3.3 V and has been clipped.
C24_RepeatedWindowClipped ==
    /\ c_pc = "returned"
    /\ c_args.frames = MaxAudioFrames
    /\ c_args.volts # << >>
    /\ Len(c_args.volts) < input_needed(c_args.frames)
    /\ Len(c_ret) = MaxAudioFrames
    /\ \A k \in 1..Len(c_ret) : c_ret[k].num = c_ret[k].den

C26_FrequencyWithinOneBin ==
    c_pc = "returned" =>
        /\ c_ret.kind = "freq"
        /\ c_ret.bin * c_args.f_den - c_args.f_num <= c_args.f_den
        /\ c_args.f_num - c_ret.bin * c_args.f_den <= c_args.f_den

(***************************************************************************)
(* The audio callback's input (AudioSpec)                                  *)
(***************************************************************************)
\* ceil(frames / ratio) with ratio = audio_sample_rate / FAKE_FS
CeilFramesOverRatio(frames) ==
    (frames * FAKE_FS + AUDIO_SAMPLE_RATE - 1) \div AUDIO_SAMPLE_RATE

\* C31: a callback asked for frames samples takes exactly ceil(frames / ratio) + 2
\* input samples from the ch1 window it holds: the most recent that many when the
\* window has them, the window repeated cyclically and cut to that many otherwise.
C31_InputIsCeilOfFramesOverRatioPlusTwo ==
    [][AudioFill
       => LET volts == c_args.volts
              taken == audio_data(volts, input_needed(c_args.frames))
              n == CeilFramesOverRatio(c_args.frames) + 2
          IN  /\ Len(taken) = n
              /\ IF Len(volts) >= n
                 THEN taken = MostRecent(volts, n)
                 ELSE \A i \in 1..n : taken[i] = volts[((i - 1) % Len(volts)) + 1]]_vars

(***************************************************************************)
(* The acquisition thread after an I/O error (FairSpec)                    *)
(***************************************************************************)
\* C32: an exception while reading is not fatal: the handler leaves the thread
\* alive with self.ser None, an open is attempted only with self.ser None, and
\* unless stop is requested the thread eventually attempts to open the port again.
C32_ReadErrorClosesPortAndReopens ==
    /\ [][\A r \in Readers :
             (r_pc[r] = "read" /\ r_pc'[r] \notin {"read", "check", "put"})
                => (r_pc'[r] = "error_sleep" /\ r_ser'[r] = "None")]_vars
    /\ \A r \in Readers : [](r_pc[r] \in {"error_sleep", "open"} => r_ser[r] = "None")
    /\ \A r \in Readers : (r_pc[r] = "error_sleep") ~> (r_pc[r] = "open" \/ r_stop[r])

\* C32's case: a read has failed in mid-stream (bytes were received before), stop
\* is not requested, and the thread is alive in the handler's sleep.
C32_BackingOffAfterReadError ==
    \E r \in Readers : r_pc[r] = "error_sleep" /\ ~r_stop[r] /\ wire_pos > 0

(***************************************************************************)
(* The acquisition thread's state machine (DecSpec)                        *)
(***************************************************************************)
\* The state of thread r: Idle before start and after the end of run, Streaming
\* while it holds a port, Error in the exception handler, Connecting otherwise.
ReaderState(pc, ser) ==
    IF pc \in {"new", "done"} THEN "Idle"
    ELSE IF ser = "open" THEN "Streaming"
    ELSE IF pc = "error_sleep" THEN "Error"
    ELSE "Connecting"

\* Idle -> Connecting -> Streaming -> Error -> Connecting, and the end of run from
\* the loop test (Connecting or Streaming -> Idle).
ReaderTransitions ==
    { <<"Idle", "Connecting">>, <<"Connecting", "Streaming">>, <<"Streaming", "Error">>,
      <<"Error", "Connecting">>, <<"Connecting", "Idle">>, <<"Streaming", "Idle">> }

\* C36: the thread moves along Idle -> Connecting -> Streaming -> (Error) ->
\* Connecting; it reads, decodes and pushes only while it holds an open port, it
\* attempts to open only while it holds none, it comes to hold a port only through
\* a successful open, and an empty read leaves it holding the port with its
\* residual buffer and the queue unchanged.
C36_ThreadFollowsStateMachine ==
    /\ [][\A r \in Readers :
             LET before == ReaderState(r_pc[r], r_ser[r])
                 after == ReaderState(r_pc'[r], r_ser'[r])
             IN  before # after => <<before, after>> \in ReaderTransitions]_vars
    /\ \A r \in Readers : [](r_pc[r] \in {"read", "put", "drop", "reput"} => r_ser[r] = "open")
    /\ [][wire_pos' # wire_pos =>
             \E r \in Readers : r_pc[r] = "read" /\ r_ser[r] = "open"]_vars
    /\ \A r \in Readers : [](r_pc[r] = "open" => r_ser[r] = "None")
    /\ [][\A r \in Readers :
             (r_ser[r] = "None" /\ r_ser'[r] = "open")
                => (r_pc[r] = "open" /\ r_pc'[r] = "read")]_vars
    /\ [][\A r \in Readers :
             (r_pc[r] = "read" /\ r_pc'[r] = "check" /\ wire_pos' = wire_pos)
                => /\ r_ser'[r] = "open"
                   /\ r_buf'[r] = r_buf[r]
                   /\ serial_queue' = serial_queue]_vars

\* C36's case: a thread that holds the port is back at the loop test with bytes of
\* an incomplete frame in its residual buffer and a batch in the queue, as it is
\* after a read that timed out in mid-frame.
C36_StreamingWithResidualAtLoopTest ==
    \E r \in Readers :
        /\ r_pc[r] = "check" /\ r_ser[r] = "open" /\ ~r_stop[r]
        /\ r_buf[r] # << >> /\ serial_queue # << >>

(***************************************************************************)
(* The length of the display window (WinSpec, FitSpec)                     *)
(***************************************************************************)
\* C33: at every time-per-division setting, the window length a tick computes is at
\* least the minimum (100 in the program, MinShow here) and at most the length of
\* the ring buffer.
C33_SamplesToShowWithinBounds ==
    [][WindowingTick
       => /\ MinShow <= ShownOf(buffer_ch1')
          /\ ShownOf(buffer_ch1') <= Len(buffer_ch1')
          /\ ShownOf(buffer_ch2') = ShownOf(buffer_ch1')]_vars

\* C33's case: the time scale asks for fewer samples than the minimum and the
\* published window has the minimum length.
C33_ShortRequestRaisedToMinimum ==
    /\ time_per_div < MinShow
    /\ trigger_mode = "AUTO"
    /\ Len(last_data_volts.ch1) = MinShow
    /\ \E i \in 1..Len(buffer_ch1) : buffer_ch1[i] # 0

\* The tick publishes: AUTO mode, or NORMAL mode with a trigger on both channels.
Publishes(raw_ch1, raw_ch2) ==
    \/ trigger_mode = "AUTO"
    \/ TriggersIn(raw_ch1, threshold_ch1) # << >> /\ TriggersIn(raw_ch2, threshold_ch2) # << >>

\* C34: on every tick that publishes, in AUTO and in NORMAL mode, the published
\* arrays of the two channels have the same length, the tick's samples_to_show,
\* which is at least the minimum window length and so at least the number of
\* samples the measurements require (10 in the program, MinMeasure here).
C34_PublishedArraysHaveWindowLength ==
    [][(WindowingTick /\ Publishes(buffer_ch1', buffer_ch2'))
       => /\ Len(last_data_volts'.ch1) = ShownOf(buffer_ch1')
          /\ Len(last_data_volts'.ch2) = ShownOf(buffer_ch1')
          /\ Len(last_data_volts'.ch1) >= MinShow
          /\ Len(last_data_volts'.ch1) >= MinMeasure]_vars

\* C34's case: NORMAL mode has published at the long time scale with a trigger on
\* both channels whose window runs past the end of the buffer, so that both arrays
\* are the most recent samples.
C34_FallbackWindowsInNormalMode ==
    /\ trigger_mode = "NORMAL"
    /\ time_per_div = LongShow
    /\ TriggersIn(buffer_ch1, threshold_ch1) # << >>
    /\ TriggersIn(buffer_ch2, threshold_ch2) # << >>
    /\ TriggersIn(buffer_ch1, threshold_ch1)[1] + ShownOf(buffer_ch1) > Len(buffer_ch1)
    /\ TriggersIn(buffer_ch2, threshold_ch2)[1] + ShownOf(buffer_ch2) > Len(buffer_ch2)
    /\ last_data_volts.ch1 = to_volts(MostRecent(buffer_ch1, LongShow),
                                      VOLTAGE_MULT_CH1, voltage_mult_ch1)
    /\ last_data_volts.ch2 = to_volts(MostRecent(buffer_ch2, LongShow),
                                      VOLTAGE_MULT_CH2, voltage_mult_ch2)

(***************************************************************************)
(* The frozen display (FreezeSpec)                                         *)
(***************************************************************************)
\* The end of the first tick since the display was released, with a batch in hand.
FirstIngestAfterUnfreeze == DrainEmpty({0}, TRUE) /\ thawed /\ latest # << >>

\* While the display stays frozen nothing drains the queue (it changes only by a
\* step of the thread), nothing is ingested and nothing is published.
FrozenTickChangesNothing ==
    [][(is_frozen /\ is_frozen')
       => /\ UNCHANGED << buffer_ch1, buffer_ch2, last_data_volts, x_min, x_max, y_min,
                          y_max, last_expansion_time, meas, gui_pc, latest >>
          /\ (serial_queue' # serial_queue
                => \E r \in Readers : r_pc[r] \in {"put", "drop", "reput"})]_vars

\* While the display is frozen the queue holds at most QueueMaxSize batches, and a
\* push of the thread that completes leaves its batch as the newest of the queue.
FrozenQueueKeepsNewest ==
    /\ [](is_frozen => (gui_pc = "idle" /\ Len(serial_queue) <= QueueMaxSize))
    /\ [][\A r \in Readers :
             (/\ is_frozen
              /\ \/ r_pc[r] = "put" /\ ~QFull(serial_queue) /\ r_frame'[r] # r_frame[r]
                 \/ r_pc[r] = "reput" /\ r_pc'[r] # "reput")
                => (serial_queue' # << >> /\ serial_queue'[Len(serial_queue')] = r_frame[r][1]
                    /\ last_enq' = r_frame[r])]_vars

\* C35: a tick of the frozen display changes nothing (no drain, no ingest, nothing
\* published, ScaleState as it was) while the thread keeps filling the queue with
\* the newest batches, at most QueueMaxSize of them, and the first tick after the
\* display is released ingests the batch the thread queued last.
C35_FrozenTickIdleThenNewestIngested ==
    /\ FrozenTickChangesNothing
    /\ FrozenQueueKeepsNewest
    /\ [][FirstIngestAfterUnfreeze
          => /\ latest = last_enq
             /\ buffer_ch1' = MostRecent(buffer_ch1 \o last_enq[1].ch1, BufferSize)
             /\ buffer_ch2' = MostRecent(buffer_ch2 \o last_enq[1].ch2, BufferSize)]_vars

====
